---- MODULE Spec2Model ----
(***************************************************************************)
(* The sim2h switchboard (crates/sim2h/src/lib.rs): connection lifecycle,  *)
(* per-space bookkeeping, message dispatch and gossip orchestration.       *)
(*                                                                         *)
(* The whole mutable state of `Sim2h` is carried in one record `st` that   *)
(* the handlers transform; an action of the model is one event of the      *)
(* inbound queue handled to completion by priv_check_wss_events.           *)
(***************************************************************************)
EXTENDS Integers, Sequences, FiniteSets, TLC

(***************************************************************************)
(* Universes of the inputs.                                                *)
(***************************************************************************)
Uris == {"u1", "u2"}
Agents == {"A1", "A2"}
\* the same with the third client of the closed system
UriIds == Uris \cup {"u3"}
AgentIds == Agents \cup {"A3"}
Spaces == {"S1", "S2"}
Entries == {"E1"}
Aspects == {"X1", "X2"}

\* the empty request_id ("".into())
NoAgent == ""
\* Option<Lib3hUri>::None
NoUri == "none"

\* bound on the number of messages a Limbo connection queues
MaxPending == 2
\* bound on NaiveSharding { redundant_count }
MaxRedundant == 2
\* bound on the number of steps of a run (events handled and host calls)
MaxEvents == 5
\* bound on the number of steps of a run of the gossip protocol
MaxSyncEvents == 7
\* bound on the number of steps of a run of direct messages
MaxProxyEvents == 7
\* bound on the number of steps of a run of queries
MaxQueryEvents == 7
\* bound on the number of steps of a run of publishes
MaxPublishEvents == 8
\* bound on the clock, in retry intervals
MaxIntervals == 1

\* bound on the number of events the transport queues in a run
MaxArrivals == 102
\* bound on the number of validations started in a run
MaxValidations == 3

RETRY_FETCH_MISSING_ASPECTS_INTERVAL_MS == 10000
\* the events priv_check_wss_events takes in one call, at most
DRAIN_LIMIT == 100

(***************************************************************************)
(* DhtAlgorithm                                                            *)
(***************************************************************************)
FullSync == [algo |-> "FullSync"]
NaiveSharding(r) == [algo |-> "NaiveSharding", redundant_count |-> r]
DhtAlgorithm == {FullSync} \cup {NaiveSharding(r) : r \in 0..MaxRedundant}

(***************************************************************************)
(* AspectList: EntryHash -> set of AspectHash.  An entry that maps to the  *)
(* empty set is an entry the map does not hold.                            *)
(***************************************************************************)
EmptyAspectList == [e \in Entries |-> {}]
AspectListDiff(a, b) == [e \in Entries |-> a[e] \ b[e]]
EntryAddresses(a) == {e \in Entries : a[e] # {}}
FilteredByEntryHash(a, keep) == [e \in Entries |-> IF e \in keep THEN a[e] ELSE {}]

(***************************************************************************)
(* ConnectionState                                                         *)
(***************************************************************************)
NoConn == [tag |-> "None"]
Limbo(pending) == [tag |-> "Limbo", pending |-> pending]
Joined(space, agent) == [tag |-> "Joined", space |-> space, agent |-> agent]

(***************************************************************************)
(* Space                                                                   *)
(***************************************************************************)
NoSpace == [exists |-> FALSE]
NewSpace ==
    [exists |-> TRUE,
     agents |-> [a \in AgentIds |-> NoUri],
     all_aspects |-> EmptyAspectList,
     missing |-> [a \in AgentIds |-> EmptyAspectList]]

AllAgents(sp) == {a \in AgentIds : sp.agents[a] # NoUri}
AgentIdToUri(sp, agent) == IF agent \in AgentIds THEN sp.agents[agent] ELSE NoUri

\* join_agent fails only when the uri is claimed by a different agent
JoinAgentFails(sp, agent, uri) == \E b \in AgentIds \ {agent} : sp.agents[b] = uri
JoinAgent(sp, agent, uri) == [sp EXCEPT !.agents[agent] = uri]
RemoveAgent(sp, agent) == [sp EXCEPT !.agents[agent] = NoUri]
AddAspect(sp, entry, aspect) ==
    [sp EXCEPT !.all_aspects[entry] = @ \cup {aspect}]
AddMissingAspect(sp, agent, entry, aspect) ==
    [sp EXCEPT !.missing[agent][entry] = @ \cup {aspect}]
RemoveMissingAspect(sp, agent, entry, aspect) ==
    [sp EXCEPT !.missing[agent][entry] = @ \ {aspect}]
AgentsWithMissingAspects(sp) ==
    {a \in AgentIds : EntryAddresses(sp.missing[a]) # {}}
AgentIsMissingAllAspects(sp, agent, entry, aspects) ==
    aspects \subseteq sp.missing[agent][entry]
AgentIsMissingSomeAspectForEntry(sp, agent, entry) ==
    sp.missing[agent][entry] # {}

(***************************************************************************)
(* Sharding.  Locations live on a circular keyspace; the hash-to-location  *)
(* projection of the crypto system is a fixed table.                       *)
(***************************************************************************)
RingSize == 65536
AgentOrder == [a \in AgentIds |-> CASE a = "A1" -> 1 [] a = "A2" -> 2 [] OTHER -> 3]
AgentLocation == [a \in AgentIds |-> CASE a = "A1" -> 10 [] a = "A2" -> 65530 [] OTHER -> 30000]
EntryLocation == [e \in Entries |-> 2]

RingDistance(x, y) ==
    LET d == (x - y) % RingSize
        b == (y - x) % RingSize
    IN IF d < b THEN d ELSE b

\* a is strictly closer to loc than b (ties: the smaller agent id first)
Closer(a, b, loc) ==
    LET da == RingDistance(AgentLocation[a], loc)
        db == RingDistance(AgentLocation[b], loc)
    IN da < db \/ (da = db /\ AgentOrder[a] < AgentOrder[b])

AgentsSupposedToHoldEntry(sp, loc, r) ==
    {a \in AllAgents(sp) :
        Cardinality({b \in AllAgents(sp) : Closer(b, a, loc)}) < r}

AspectsInShardForAgent(sp, agent, r) ==
    [e \in Entries |->
        IF agent \in AgentsSupposedToHoldEntry(sp, EntryLocation[e], r)
        THEN sp.all_aspects[e] ELSE {}]

(***************************************************************************)
(* Iteration over a set in some fixed order.                               *)
(***************************************************************************)
RECURSIVE SetToSeq(_)
SetToSeq(S) ==
    IF S = {} THEN <<>>
    ELSE LET x == CHOOSE y \in S : TRUE IN <<x>> \o SetToSeq(S \ {x})

\* the agents of `pool` in the order the shuffle `perm` puts them
RECURSIVE Ordered(_, _)
Ordered(perm, pool) ==
    IF perm = <<>> THEN <<>>
    ELSE (IF Head(perm) \in pool THEN <<Head(perm)>> ELSE <<>>)
         \o Ordered(Tail(perm), pool)

\* the orders a shuffle can put the agents of S in
PermsOf(S) ==
    {p \in [1..Cardinality(S) -> S] : \A i, j \in DOMAIN p : i # j => p[i] # p[j]}
AgentPerms == PermsOf(Agents)
DefaultPerm == SetToSeq(AgentIds)

(***************************************************************************)
(* WireMessage: what a client can send.                                    *)
(***************************************************************************)
Ping == [type |-> "Ping"]
Pong == [type |-> "Pong"]
Status == [type |-> "Status"]
JoinSpace(s, a) == [type |-> "JoinSpace", space |-> s, agent |-> a]
LeaveSpace(s, a) == [type |-> "LeaveSpace", space |-> s, agent |-> a]
SendDirectMessage(s, from, to) ==
    [type |-> "SendDirectMessage", space |-> s, agent |-> from, to |-> to]
HandleSendDirectMessageResult(s, from, to) ==
    [type |-> "HandleSendDirectMessageResult", space |-> s, agent |-> from,
     to |-> to]
PublishEntry(s, provider, e, aspect_list) ==
    [type |-> "PublishEntry", space |-> s, agent |-> provider, entry |-> e,
     aspect_list |-> aspect_list]
HandleGetAuthoringEntryListResult(s, provider, address_map) ==
    [type |-> "HandleGetAuthoringEntryListResult", space |-> s,
     agent |-> provider, address_map |-> address_map]
HandleGetGossipingEntryListResult(s, provider, address_map) ==
    [type |-> "HandleGetGossipingEntryListResult", space |-> s,
     agent |-> provider, address_map |-> address_map]
HandleFetchEntryResult(s, provider, request_id, e, aspect_list) ==
    [type |-> "HandleFetchEntryResult", space |-> s, agent |-> provider,
     request_id |-> request_id, entry |-> e, aspect_list |-> aspect_list]
QueryEntry(s, requester, e) ==
    [type |-> "QueryEntry", space |-> s, agent |-> requester, entry |-> e]
HandleQueryEntryResult(s, responder, requester) ==
    [type |-> "HandleQueryEntryResult", space |-> s, agent |-> responder,
     to |-> requester]
\* a server-to-client variant sent by a client
Lib3hToClientFromClient == [type |-> "Lib3hToClient"]

(***************************************************************************)
(* WireMessage: what the switchboard sends.                                *)
(***************************************************************************)
StatusResponse(spaces, connections, redundant_count) ==
    [type |-> "StatusResponse", spaces |-> spaces,
     connections |-> connections, redundant_count |-> redundant_count]
ErrMessageWhileInLimbo == [type |-> "Err", error |-> "MessageWhileInLimbo"]
HandleGetAuthoringEntryList(s, provider) ==
    [type |-> "HandleGetAuthoringEntryList", request_id |-> NoAgent,
     space |-> s, agent |-> provider]
HandleGetGossipingEntryList(s, provider) ==
    [type |-> "HandleGetGossipingEntryList", request_id |-> NoAgent,
     space |-> s, agent |-> provider]
HandleFetchEntry(request_id, s, provider, e, aspects) ==
    [type |-> "HandleFetchEntry", request_id |-> request_id, space |-> s,
     agent |-> provider, entry |-> e, aspect_address_list |-> aspects]
HandleStoreEntryAspect(s, provider, e, aspect) ==
    [type |-> "HandleStoreEntryAspect", request_id |-> NoAgent, space |-> s,
     agent |-> provider, entry |-> e, aspect |-> aspect]
\* a proxied message: the payload is forwarded under another variant
Forward(type, m) == [type |-> type, payload |-> m]

(***************************************************************************)
(* WssCommand                                                              *)
(***************************************************************************)
SendMessage(uri, msg) == [cmd |-> "SendMessage", uri |-> uri, msg |-> msg]
CloseConnection(uri) == [cmd |-> "CloseConnection", uri |-> uri]

(***************************************************************************)
(* The handlers.  `st` is the state of Sim2h while one event is handled:   *)
(*   connections, spaces, open_connections, dht_algorithm  fields of Sim2h *)
(*   out         commands put on send_wss_command by this event            *)
(*   message_log what this event added to the log of outgoing messages     *)
(*   result      what the handler returned                                 *)
(*   aborted     the process panicked                                      *)
(*   rng         the outcomes of the shuffles still to be drawn            *)
(* and, for the record of what happened,                                   *)
(*   frame       the signer verified on the frame that carried the message *)
(*               now being handled                                         *)
(*   pending_signer  for each Limbo queue, the frame signer of each entry  *)
(*   dispatched  the calls of handle_joined made by this event             *)
(*   replayed    the result of each queued message join handed on          *)
(*   join_point  connections and spaces when join has done its own work,   *)
(*               before it hands on the first queued message               *)
(***************************************************************************)
RECURSIVE HandleMessage(_, _, _, _)

Ok == "Ok"
SignerMismatch == "SignerMismatch"
SpaceMismatch == "SpaceMismatch"
Returned(st, r) == [st EXCEPT !.result = r]

\* what MESSAGE_LOGGER records of a send
LogOut(agent, uri, msg) == [agent |-> agent, uri |-> uri, msg |-> msg]

\* mutant: the command is enqueued whether or not the uri is open
SendUnchecked(st, agent, uri, msg) ==
    LET st1 == IF msg.type \in {"Ping", "Pong"} THEN st
               ELSE [st EXCEPT !.message_log =
                        Append(@, LogOut(agent, uri, msg))]
    IN [st1 EXCEPT !.out = Append(@, SendMessage(uri, msg))]

Send(st, agent, uri, msg) ==
    LET st1 == IF msg.type \in {"Ping", "Pong"} THEN st
               ELSE [st EXCEPT !.message_log =
                        Append(@, LogOut(agent, uri, msg))]
    IN IF uri \notin st.open_connections THEN st1
       ELSE [st1 EXCEPT !.out = Append(@, SendMessage(uri, msg))]

RequestAuthoringList(st, uri, space_address, provider_agent_id) ==
    Send(st, provider_agent_id, uri,
         HandleGetAuthoringEntryList(space_address, provider_agent_id))

RequestGossipingList(st, uri, space_address, provider_agent_id) ==
    Send(st, provider_agent_id, uri,
         HandleGetGossipingEntryList(space_address, provider_agent_id))

\* mutant: the space is inserted afresh even when it is there
GetOrCreateSpaceFresh(st, space_address) ==
    [st EXCEPT !.spaces[space_address] = NewSpace]

GetOrCreateSpace(st, space_address) ==
    IF st.spaces[space_address].exists THEN st
    ELSE [st EXCEPT !.spaces[space_address] = NewSpace]

LookupJoined(st, space_address, agent_id) ==
    IF st.spaces[space_address].exists
    THEN AgentIdToUri(st.spaces[space_address], agent_id)
    ELSE NoUri

\* mutant: the uri stays in the set of open connections
DisconnectKeepsOpen(st, uri) ==
    LET c == st.connections[uri]
        st1 == [st EXCEPT !.out = Append(@, CloseConnection(uri)),
                          !.connections[uri] = NoConn,
                          !.pending_signer[uri] = <<>>]
    IN IF c.tag = "Joined" /\ st.spaces[c.space].exists
       THEN LET sp == RemoveAgent(st.spaces[c.space], c.agent)
            IN IF Cardinality(AllAgents(sp)) = 0
               THEN [st1 EXCEPT !.spaces[c.space] = NoSpace]
               ELSE [st1 EXCEPT !.spaces[c.space] = sp]
       ELSE st1

Disconnect(st, uri) ==
    LET c == st.connections[uri]
        st1 == [st EXCEPT !.open_connections = @ \ {uri},
                          !.out = Append(@, CloseConnection(uri)),
                          !.connections[uri] = NoConn,
                          !.pending_signer[uri] = <<>>]
    IN IF c.tag = "Joined" /\ st.spaces[c.space].exists
       THEN LET sp == RemoveAgent(st.spaces[c.space], c.agent)
            IN IF Cardinality(AllAgents(sp)) = 0
               THEN [st1 EXCEPT !.spaces[c.space] = NoSpace]
               ELSE [st1 EXCEPT !.spaces[c.space] = sp]
       ELSE st1

HandleIncomingConnect(st, uri) ==
    Returned([st EXCEPT !.connections[uri] = Limbo(<<>>),
                        !.pending_signer[uri] = <<>>], Ok)

\* mutant: the data of the message is not compared with the connection
LeaveAnyData(st, uri, data) ==
    LET c == st.connections[uri]
    IN IF c.tag = "Joined" THEN Returned(Disconnect(st, uri), Ok)
       ELSE Returned(st, "NoJoinedAgent")

Leave(st, uri, data) ==
    LET c == st.connections[uri]
    IN IF c.tag = "Joined"
       THEN IF data.agent # c.agent \/ data.space # c.space
            THEN Returned(st, SpaceMismatch)
            ELSE Returned(Disconnect(st, uri), Ok)
       ELSE Returned(st, "NoJoinedAgent")

\* mutant: the pending messages are handed on newest first
RECURSIVE ReplayNewestFirst(_, _, _, _, _)
ReplayNewestFirst(st, uri, pending_messages, signers, agent_id) ==
    IF pending_messages = <<>> THEN st
    ELSE LET n == Len(pending_messages)
             st1 == HandleMessage([st EXCEPT !.frame = signers[n]], uri,
                                  pending_messages[n], agent_id)
         IN IF st1.aborted THEN st1
            ELSE ReplayNewestFirst(
                    [st1 EXCEPT !.replayed = Append(@, st1.result)], uri,
                    SubSeq(pending_messages, 1, n - 1),
                    SubSeq(signers, 1, n - 1), agent_id)

\* the pending messages of a Limbo connection, handed to handle_message
\* with the joining agent as their signer
RECURSIVE Replay(_, _, _, _, _)
Replay(st, uri, pending_messages, signers, agent_id) ==
    IF pending_messages = <<>> THEN st
    ELSE LET st1 == HandleMessage([st EXCEPT !.frame = Head(signers)], uri,
                                  Head(pending_messages), agent_id)
         IN IF st1.aborted THEN st1
            ELSE Replay([st1 EXCEPT !.replayed = Append(@, st1.result)], uri,
                        Tail(pending_messages), Tail(signers), agent_id)

NoJoinPoint == [taken |-> FALSE]
JoinPoint(st) ==
    [taken |-> TRUE, connections |-> st.connections, spaces |-> st.spaces]

Join(st, uri, data) ==
    LET c == st.connections[uri]
    IN IF c.tag = "Limbo"
       THEN LET st1 == [st EXCEPT
                          !.connections[uri] = Joined(data.space, data.agent),
                          !.pending_signer[uri] = <<>>]
                st2 == GetOrCreateSpace(st1, data.space)
            IN IF JoinAgentFails(st2.spaces[data.space], data.agent, uri)
               THEN Returned([st2 EXCEPT !.join_point = JoinPoint(st2)],
                             "JoinAgentFailed")
               ELSE LET st3 == [st2 EXCEPT !.spaces[data.space] =
                                    JoinAgent(@, data.agent, uri)]
                        st4 == RequestAuthoringList(st3, uri, data.space,
                                                    data.agent)
                        st5 == RequestGossipingList(st4, uri, data.space,
                                                    data.agent)
                        st6 == Replay([st5 EXCEPT
                                          !.join_point = JoinPoint(st5)],
                                      uri, c.pending,
                                      st.pending_signer[uri], data.agent)
                    IN Returned([st6 EXCEPT !.frame = st.frame],
                                IF st6.aborted THEN "Panic" ELSE Ok)
       ELSE Returned(st, "NoAgentInLimbo")

\* one shuffle: the next outcome of the random number generator
NextShuffle(st) == IF st.rng = <<>> THEN DefaultPerm ELSE Head(st.rng)
ShuffleDrawn(st) == IF st.rng = <<>> THEN st ELSE [st EXCEPT !.rng = Tail(@)]

RECURSIVE SendAll(_, _, _, _)
SendAll(st, agent, uri, msgs) ==
    IF msgs = <<>> THEN st
    ELSE SendAll(Send(st, agent, uri, Head(msgs)), agent, uri, Tail(msgs))

\* mutant: every reported aspect is fetched, known or not
HandleUnseenAspectsAll(st, uri, space_address, agent_id, list_data) ==
    LET st1 == GetOrCreateSpace(st, space_address)
        es == SetToSeq(EntryAddresses(list_data.address_map))
    IN SendAll(st1, agent_id, uri,
               [i \in 1..Len(es) |->
                   HandleFetchEntry(NoAgent, space_address, agent_id, es[i],
                                    list_data.address_map[es[i]])])

HandleUnseenAspects(st, uri, space_address, agent_id, list_data) ==
    LET st1 == GetOrCreateSpace(st, space_address)
        unseen_aspects == AspectListDiff(list_data.address_map,
                                         st1.spaces[space_address].all_aspects)
        es == SetToSeq(EntryAddresses(unseen_aspects))
    IN SendAll(st1, agent_id, uri,
               [i \in 1..Len(es) |->
                   HandleFetchEntry(NoAgent, space_address, agent_id, es[i],
                                    unseen_aspects[es[i]])])

\* mutant: the first agent of the pool, whoever it is
GetAgentNotMissingAspectsAny(st, entry_hash, aspects, for_agent_id, agent_pool, space_address) ==
    IF ~st.spaces[space_address].exists \/ agent_pool = <<>> THEN NoAgent
    ELSE Head(agent_pool)

\* agent_pool is the shuffled pool, a sequence
GetAgentNotMissingAspects(st, entry_hash, aspects, for_agent_id, agent_pool, space_address) ==
    IF ~st.spaces[space_address].exists THEN NoAgent
    ELSE LET able == SelectSeq(agent_pool, LAMBDA a :
                        a # for_agent_id
                        /\ ~AgentIsMissingAllAspects(st.spaces[space_address],
                                                     a, entry_hash, aspects))
         IN IF able = <<>> THEN NoAgent ELSE Head(able)

RECURSIVE FetchEach(_, _, _, _, _, _)
FetchEach(st, es, aspects_to_fetch, for_agent_id, agent_pool, space_address) ==
    IF es = <<>> THEN st
    ELSE LET entry_address == Head(es)
             arbitrary_agent ==
                 GetAgentNotMissingAspects(st, entry_address,
                     aspects_to_fetch[entry_address], for_agent_id,
                     agent_pool, space_address)
             random_url == LookupJoined(st, space_address, arbitrary_agent)
         IN IF arbitrary_agent = NoAgent
            THEN FetchEach(st, Tail(es), aspects_to_fetch, for_agent_id,
                           agent_pool, space_address)
            ELSE IF random_url = NoUri THEN st
            ELSE FetchEach(
                   Send(st, arbitrary_agent, random_url,
                        HandleFetchEntry(for_agent_id, space_address,
                            arbitrary_agent, entry_address,
                            aspects_to_fetch[entry_address])),
                   Tail(es), aspects_to_fetch, for_agent_id, agent_pool,
                   space_address)

\* agent_pool is the set of candidates; the shuffle orders it
FetchAspectsFromArbitraryAgent(st, aspects_to_fetch, for_agent_id, agent_pool, space_address) ==
    FetchEach(ShuffleDrawn(st), SetToSeq(EntryAddresses(aspects_to_fetch)),
              aspects_to_fetch, for_agent_id,
              Ordered(NextShuffle(st), agent_pool), space_address)

RECURSIVE Broadcast(_, _, _)
Broadcast(st, msg, agents) ==
    IF agents = <<>> THEN st
    ELSE Broadcast(Send(st, Head(agents).agent, Head(agents).uri, msg), msg,
                   Tail(agents))

\* Vec<(AgentId, AgentInfo)> of the agents in `set`
AgentInfos(sp, set) ==
    LET as == SetToSeq(set)
    IN [i \in 1..Len(as) |-> [agent |-> as[i], uri |-> sp.agents[as[i]]]]

AllAgentsExceptOne(st, space, except) ==
    LET sp == GetOrCreateSpace(st, space).spaces[space]
    IN AgentInfos(sp, AllAgents(sp) \ {except})

AgentsInNeighbourhood(st, space, entry_loc, redundant_count) ==
    LET sp == GetOrCreateSpace(st, space).spaces[space]
    IN AgentInfos(sp, AgentsSupposedToHoldEntry(sp, entry_loc,
                                                redundant_count))

RECURSIVE StoreEach(_, _, _, _, _, _)
StoreEach(st, entry_address, aspect_list, space_address, provider, dht_agents) ==
    IF aspect_list = <<>> THEN st
    ELSE LET st1 == GetOrCreateSpace(st, space_address)
             st2 == [st1 EXCEPT !.spaces[space_address] =
                        AddAspect(@, entry_address, Head(aspect_list))]
             store_message == HandleStoreEntryAspect(space_address, provider,
                                  entry_address, Head(aspect_list))
         IN StoreEach(Broadcast(st2, store_message, dht_agents),
                      entry_address, Tail(aspect_list), space_address,
                      provider, dht_agents)

\* mutant: the aspects go to every agent but the provider, whatever the
\* algorithm
HandleNewEntryDataToAll(st, entry_data, space_address, provider) ==
    StoreEach(GetOrCreateSpace(st, space_address), entry_data.entry,
              entry_data.aspect_list, space_address, provider,
              AllAgentsExceptOne(st, space_address, provider))

HandleNewEntryData(st, entry_data, space_address, provider) ==
    LET dht_agents ==
            IF st.dht_algorithm.algo = "FullSync"
            THEN AllAgentsExceptOne(st, space_address, provider)
            ELSE AgentsInNeighbourhood(st, space_address,
                     EntryLocation[entry_data.entry],
                     st.dht_algorithm.redundant_count)
    IN StoreEach(GetOrCreateSpace(st, space_address), entry_data.entry,
                 entry_data.aspect_list, space_address, provider, dht_agents)

\* mutant: every aspect of a missing entry is recorded, known or not
RECURSIVE AddMissingEachWholeEntry(_, _, _, _)
AddMissingEachWholeEntry(sp, agent_id, es, aspects_missing_at_node) ==
    IF es = <<>> THEN sp
    ELSE AddMissingEachWholeEntry(
            [sp EXCEPT !.missing[agent_id][Head(es)] = Aspects],
            agent_id, Tail(es), aspects_missing_at_node)

RECURSIVE AddMissingEach(_, _, _, _)
AddMissingEach(sp, agent_id, es, aspects_missing_at_node) ==
    IF es = <<>> THEN sp
    ELSE AddMissingEach(
            [sp EXCEPT !.missing[agent_id][Head(es)] =
                          @ \cup aspects_missing_at_node[Head(es)]],
            agent_id, Tail(es), aspects_missing_at_node)

RECURSIVE FetchPerEntry(_, _, _, _, _, _)
FetchPerEntry(st, es, aspects_missing_at_node, agent_id, space_address, redundant_count) ==
    IF es = <<>> THEN st
    ELSE LET st1 == GetOrCreateSpace(st, space_address)
             agent_pool == AgentsSupposedToHoldEntry(
                               st1.spaces[space_address],
                               EntryLocation[Head(es)], redundant_count)
         IN FetchPerEntry(
                FetchAspectsFromArbitraryAgent(st1,
                    FilteredByEntryHash(aspects_missing_at_node, {Head(es)}),
                    agent_id, agent_pool, space_address),
                Tail(es), aspects_missing_at_node, agent_id, space_address,
                redundant_count)

HandleGossipingList(st, uri, space_address, agent_id, list_data) ==
    LET st1 == GetOrCreateSpace(
                   HandleUnseenAspects(st, uri, space_address, agent_id,
                                       list_data), space_address)
        sp == st1.spaces[space_address]
        expected ==
            IF st.dht_algorithm.algo = "FullSync" THEN sp.all_aspects
            ELSE AspectsInShardForAgent(sp, agent_id,
                                        st.dht_algorithm.redundant_count)
        aspects_missing_at_node ==
            AspectListDiff(expected, list_data.address_map)
        es == SetToSeq(EntryAddresses(aspects_missing_at_node))
        st2 == [st1 EXCEPT !.spaces[space_address] =
                   AddMissingEach(@, agent_id, es, aspects_missing_at_node)]
        all_agents_in_space == AllAgents(st2.spaces[space_address])
    IN IF es = <<>> THEN st1
       ELSE IF st.dht_algorithm.algo = "FullSync"
       THEN IF Cardinality(all_agents_in_space) = 1 THEN st2
            ELSE FetchAspectsFromArbitraryAgent(st2, aspects_missing_at_node,
                     agent_id, all_agents_in_space, space_address)
       ELSE FetchPerEntry(st2, es, aspects_missing_at_node, agent_id,
                          space_address, st.dht_algorithm.redundant_count)

\* mutant: the stores are sent and the ledger is left as it was
RECURSIVE DeliverEachKeepsLedger(_, _, _, _, _, _, _)
DeliverEachKeepsLedger(st, aspect_list, entry_address, to_agent_id, url, space_address, agent_id) ==
    IF aspect_list = <<>> THEN st
    ELSE DeliverEachKeepsLedger(
            Send(GetOrCreateSpace(st, space_address), to_agent_id, url,
                 HandleStoreEntryAspect(space_address, agent_id,
                                        entry_address, Head(aspect_list))),
            Tail(aspect_list), entry_address, to_agent_id, url,
            space_address, agent_id)

RECURSIVE DeliverEach(_, _, _, _, _, _, _)
DeliverEach(st, aspect_list, entry_address, to_agent_id, url, space_address, agent_id) ==
    IF aspect_list = <<>> THEN st
    ELSE LET st1 == GetOrCreateSpace(st, space_address)
             st2 == [st1 EXCEPT !.spaces[space_address] =
                        RemoveMissingAspect(@, to_agent_id, entry_address,
                                            Head(aspect_list))]
         IN DeliverEach(
                Send(st2, to_agent_id, url,
                     HandleStoreEntryAspect(space_address, agent_id,
                                            entry_address, Head(aspect_list))),
                Tail(aspect_list), entry_address, to_agent_id, url,
                space_address, agent_id)

\* mutant: a result for an agent that is not registered is taken as new data
HandleFetchResultAsNew(st, space_address, agent_id, fetch_result) ==
    IF fetch_result.request_id = NoAgent
       \/ LookupJoined(st, space_address, fetch_result.request_id) = NoUri
    THEN HandleNewEntryData(st, fetch_result, space_address, agent_id)
    ELSE DeliverEach(st, fetch_result.aspect_list, fetch_result.entry,
                     fetch_result.request_id,
                     LookupJoined(st, space_address, fetch_result.request_id),
                     space_address, agent_id)

HandleFetchResult(st, space_address, agent_id, fetch_result) ==
    IF fetch_result.request_id = NoAgent
    THEN HandleNewEntryData(st, fetch_result, space_address, agent_id)
    ELSE LET to_agent_id == fetch_result.request_id
             url == LookupJoined(st, space_address, to_agent_id)
         IN IF url = NoUri THEN st
            ELSE DeliverEach(st, fetch_result.aspect_list, fetch_result.entry,
                             to_agent_id, url, space_address, agent_id)

HandleQueryEntry(st, space_address, query_data) ==
    LET redundant_count == st.dht_algorithm.redundant_count
        st1 == GetOrCreateSpace(st, space_address)
        sp == st1.spaces[space_address]
        agent_pool == AgentsSupposedToHoldEntry(sp,
                          EntryLocation[query_data.entry], redundant_count)
        agents_with_all_aspects_for_entry ==
            {a \in agent_pool :
                ~AgentIsMissingSomeAspectForEntry(sp, a, query_data.entry)}
        agents_to_sample_from ==
            IF agents_with_all_aspects_for_entry = {} THEN agent_pool
            ELSE agents_with_all_aspects_for_entry
        query_target ==
            IF agent_pool = {} THEN query_data.agent
            ELSE Head(Ordered(NextShuffle(st), agents_to_sample_from))
        st2 == IF agent_pool = {} THEN st1 ELSE ShuffleDrawn(st1)
        url == LookupJoined(st2, space_address, query_target)
    IN IF url = NoUri THEN Returned(st2, Ok)
       ELSE Returned(Send(st2, query_target, url,
                          Forward("HandleQueryEntry", query_data)), Ok)

\* mutant: a recipient that is not registered is not an error
ProxyAlwaysOk(st, space_address, data, variant) ==
    LET to_url == LookupJoined(st, space_address, data.to)
    IN IF to_url = NoUri THEN Returned(st, Ok)
       ELSE Returned(Send(st, data.to, to_url, Forward(variant, data)), Ok)

\* a direct message, its result or a query result: proxied to `to`
Proxy(st, space_address, data, variant) ==
    LET to_url == LookupJoined(st, space_address, data.to)
    IN IF to_url = NoUri THEN Returned(st, "UnvalidatedProxyAgent")
       ELSE Returned(Send(st, data.to, to_url, Forward(variant, data)), Ok)

\* mutant: the space of the payload is not compared
MismatchAgentOnly(data, space_address, agent_id) == data.agent # agent_id

Mismatch(data, space_address, agent_id) ==
    data.agent # agent_id \/ data.space # space_address

HandleJoined(st, uri, space_address, agent_id, message) ==
    CASE message.type \in {"Lib3hToClient", "ClientToLib3hResponse"} ->
            Returned([st EXCEPT !.aborted = TRUE], "Panic")
      [] message.type = "JoinSpace" -> Returned(st, "JoinNotProxied")
      [] message.type = "LeaveSpace" -> Leave(st, uri, message)
      [] message.type = "SendDirectMessage" ->
            IF Mismatch(message, space_address, agent_id)
            THEN Returned(st, SpaceMismatch)
            ELSE Proxy(st, space_address, message, "HandleSendDirectMessage")
      [] message.type = "HandleSendDirectMessageResult" ->
            IF Mismatch(message, space_address, agent_id)
            THEN Returned(st, SpaceMismatch)
            ELSE Proxy(st, space_address, message, "SendDirectMessageResult")
      [] message.type = "PublishEntry" ->
            IF Mismatch(message, space_address, agent_id)
            THEN Returned(st, SpaceMismatch)
            ELSE Returned(HandleNewEntryData(st, message, space_address,
                                             agent_id), Ok)
      [] message.type = "HandleGetAuthoringEntryListResult" ->
            IF Mismatch(message, space_address, agent_id)
            THEN Returned(st, SpaceMismatch)
            ELSE Returned(HandleUnseenAspects(st, uri, space_address,
                                              agent_id, message), Ok)
      [] message.type = "HandleGetGossipingEntryListResult" ->
            IF Mismatch(message, space_address, agent_id)
            THEN Returned(st, SpaceMismatch)
            ELSE Returned(HandleGossipingList(st, uri, space_address,
                                              agent_id, message), Ok)
      [] message.type = "HandleFetchEntryResult" ->
            IF Mismatch(message, space_address, agent_id)
            THEN Returned(st, SpaceMismatch)
            ELSE Returned(HandleFetchResult(st, space_address, agent_id,
                                            message), Ok)
      [] message.type = "QueryEntry" ->
            IF st.dht_algorithm.algo = "NaiveSharding"
            THEN HandleQueryEntry(st, space_address, message)
            ELSE Returned(st, "QueryEntryInFullSync")
      [] message.type = "HandleQueryEntryResult" ->
            IF Mismatch(message, space_address, agent_id)
            THEN Returned(st, SpaceMismatch)
            ELSE Proxy(st, space_address, message, "QueryEntryResult")
      [] OTHER -> Returned(st, "NotImplemented")

\* mutant: queueing a message registers its signer in the first space
QueueInLimboRegisters(st, uri, message, signer) ==
    LET st0 == GetOrCreateSpace(st, "S1")
        st1 == [st0 EXCEPT
                  !.spaces["S1"] = JoinAgent(@, signer, uri),
                  !.connections[uri] = Limbo(Append(@.pending, message)),
                  !.pending_signer[uri] = Append(@, st.frame)]
    IN Returned(Send(st1, signer, uri, ErrMessageWhileInLimbo), Ok)

\* mutant: the new message replaces the queue
QueueInLimboOverwrites(st, uri, message, signer) ==
    LET st1 == [st EXCEPT
                  !.connections[uri] = Limbo(<<message>>),
                  !.pending_signer[uri] = <<st.frame>>]
    IN Returned(Send(st1, signer, uri, ErrMessageWhileInLimbo), Ok)

\* a message that is not JoinSpace, on a Limbo connection
QueueInLimbo(st, uri, message, signer) ==
    LET st1 == [st EXCEPT
                  !.connections[uri] = Limbo(Append(@.pending, message)),
                  !.pending_signer[uri] = Append(@, st.frame)]
    IN Returned(Send(st1, signer, uri, ErrMessageWhileInLimbo), Ok)

\* mutant: the redundant count of the status is always 0
RedundantCountZero(st) == 0

RedundantCount(st) ==
    IF st.dht_algorithm.algo = "FullSync" THEN 0
    ELSE st.dht_algorithm.redundant_count

\* mutant: a JoinSpace on a Joined connection binds it anew
HandleMessageRejoins(st, uri, message, signer) ==
    IF message = Ping THEN Returned(Send(st, signer, uri, Pong), Ok)
    ELSE IF message = Status
    THEN Returned(
           Send(st, signer, uri,
                StatusResponse(
                    Cardinality({s \in Spaces : st.spaces[s].exists}),
                    Cardinality(st.open_connections), RedundantCount(st))),
           Ok)
    ELSE LET agent == st.connections[uri]
         IN CASE agent.tag = "None" -> Returned(st, "NoConnection")
              [] agent.tag = "Limbo" ->
                    IF message.type = "JoinSpace"
                    THEN IF message.agent # signer
                         THEN Returned(st, SignerMismatch)
                         ELSE Join(st, uri, message)
                    ELSE QueueInLimbo(st, uri, message, signer)
              [] agent.tag = "Joined" ->
                    IF agent.agent # signer
                    THEN Returned(st, SignerMismatch)
                    ELSE IF message.type = "JoinSpace"
                    THEN Returned([st EXCEPT !.connections[uri] =
                                      Joined(message.space, message.agent)],
                                  Ok)
                    ELSE HandleJoined(
                           [st EXCEPT !.dispatched = Append(@,
                               [uri |-> uri, space |-> agent.space,
                                agent |-> agent.agent, msg |-> message,
                                signer |-> st.frame])],
                           uri, agent.space, agent.agent, message)

HandleMessage(st, uri, message, signer) ==
    IF message = Ping THEN Returned(Send(st, signer, uri, Pong), Ok)
    ELSE IF message = Status
    THEN Returned(
           Send(st, signer, uri,
                StatusResponse(
                    Cardinality({s \in Spaces : st.spaces[s].exists}),
                    Cardinality(st.open_connections), RedundantCount(st))),
           Ok)
    ELSE LET agent == st.connections[uri]
         IN CASE agent.tag = "None" -> Returned(st, "NoConnection")
              [] agent.tag = "Limbo" ->
                    IF message.type = "JoinSpace"
                    THEN IF message.agent # signer
                         THEN Returned(st, SignerMismatch)
                         ELSE Join(st, uri, message)
                    ELSE QueueInLimbo(st, uri, message, signer)
              [] agent.tag = "Joined" ->
                    IF agent.agent # signer
                    THEN Returned(st, SignerMismatch)
                    ELSE HandleJoined(
                           [st EXCEPT !.dispatched = Append(@,
                               [uri |-> uri, space |-> agent.space,
                                agent |-> agent.agent, msg |-> message,
                                signer |-> st.frame])],
                           uri, agent.space, agent.agent, message)

RECURSIVE RequestEach(_, _, _)
RequestEach(st, space_hash, agents) ==
    IF agents = <<>> THEN st
    ELSE RequestEach(RequestGossipingList(st, Head(agents).uri, space_hash,
                                          Head(agents).agent),
                     space_hash, Tail(agents))

\* mutant: every agent of the space, whatever its ledger holds
AgentIdsWithUrisOfAll(sp) == AgentInfos(sp, AllAgents(sp))

\* the agents of a space with missing aspects that have a uri, with it
AgentIdsWithUris(sp) ==
    AgentInfos(sp, {a \in AgentsWithMissingAspects(sp) :
                       AgentIdToUri(sp, a) # NoUri})

RECURSIVE RetryEachSpace(_, _)
RetryEachSpace(st, ss) ==
    IF ss = <<>> THEN st
    ELSE RetryEachSpace(
            RequestEach(st, Head(ss), AgentIdsWithUris(st.spaces[Head(ss)])),
            Tail(ss))

\* the spaces are visited in the order of the map, which the model fixes
RetrySyncMissingAspects(st) ==
    RetryEachSpace(st, SetToSeq({s \in Spaces :
        /\ st.spaces[s].exists
        /\ AgentsWithMissingAspects(st.spaces[s]) # {}}))

(***************************************************************************)
(* The state of the switchboard.  priv_check_wss_events takes one event    *)
(* off recv_wss_event and handles it (pc goes from "recv" to "handled"),   *)
(* then goes round its loop (pc goes back to "recv").  out, result,        *)
(* message_log, dispatched, replayed, join_point and ev describe the event *)
(* that was just handled;                                                  *)
(* recv_wss_event is the queue the transport puts its events on, each      *)
(* stamped with its number of arrival; in_process and iter are the         *)
(* position of process() in the loop of priv_check_wss_events, and         *)
(* last_taken is the stamp of the event the loop took last.                *)
(* events counts the steps taken.  now is the clock, in milliseconds       *)
(* since the switchboard was made; handling an event takes no time.        *)
(* held is what each client stores, to_client the frames in flight to each *)
(* client, to_server the events of the clients in the inbound queue, each  *)
(* with the uri it came from, and phase is how far each client has come:   *)
(* these are the clients of the closed system, which connect, join,        *)
(* publish and answer what they are asked.                                 *)
(***************************************************************************)
(***************************************************************************)
(* Validation of an entry by the nucleus (core, nucleus/actions/validate.rs) *)
(***************************************************************************)
\* the process-unique ids of the validations
ValidationIds == 1..MaxValidations
\* the addresses of the entries validated
Addresses == {"E1", "E2"}
\* the key of a validation: (id, address)
ValidationKeys == ValidationIds \X Addresses
NoKey == <<0, "">>

\* what validation_results holds under a key
NoResult == [tag |-> "None"]
OkUnit == [tag |-> "Ok"]
ErrString(e) == [tag |-> "Err", error |-> e]

\* what the validation callback of the ribosome returns
CallbackPass == [tag |-> "Pass"]
CallbackFail(error_string) == [tag |-> "Fail", error |-> error_string]
CallbackNotImplemented == [tag |-> "NotImplemented"]
CallbackError(error) == [tag |-> "Error", error |-> error]
CallbackOutcomes ==
    {CallbackPass, CallbackFail("invalid"), CallbackNotImplemented,
     CallbackError("ribosome error")}

\* the result the validation thread sends for an outcome of the callback
ValidationResult(maybe_validation_result) ==
    CASE maybe_validation_result.tag = "Pass" -> OkUnit
      [] maybe_validation_result.tag = "Fail" ->
            ErrString(maybe_validation_result.error)
      [] maybe_validation_result.tag = "NotImplemented" ->
            ErrString("Validation callback not implemented")
      [] maybe_validation_result.tag = "Error" ->
            ErrString(maybe_validation_result.error)

\* the state of the context: absent until it is set
NoState == [exists |-> FALSE]
NucleusState(validation_results) ==
    [exists |-> TRUE, validation_results |-> validation_results]

\* Poll<Result<HashString, HolochainError>>
Pending == [poll |-> "Pending"]
ReadyOk(address) == [poll |-> "Ready", ok |-> TRUE, value |-> address]
ValidationFailed(e) == [poll |-> "Ready", ok |-> FALSE, value |-> e]

\* mutant: the result is looked up by the address of the entry alone
PollByAddress(state, key) ==
    IF state.exists
    THEN LET found == {k \in ValidationKeys :
                          /\ k[2] = key[2]
                          /\ state.validation_results[k] # NoResult}
         IN IF found = {} THEN Pending
            ELSE LET k == CHOOSE k \in found : TRUE
                     r == state.validation_results[k]
                 IN IF r = OkUnit THEN ReadyOk(key[2])
                    ELSE ValidationFailed(r.error)
    ELSE Pending

\* ValidationFuture::poll
PollValidation(state, key) ==
    IF state.exists
    THEN LET r == state.validation_results[key]
         IN CASE r = OkUnit -> ReadyOk(key[2])
              [] r.tag = "Err" -> ValidationFailed(r.error)
              [] r = NoResult -> Pending
    ELSE Pending

\* a validation: not started, awaited, or returned with an output
NoValidation == [status |-> "none", key |-> NoKey, output |-> Pending]
Awaited(key) == [status |-> "awaited", key |-> key, output |-> Pending]
Done(key, output) == [status |-> "returned", key |-> key, output |-> output]

VARIABLES connections, spaces, open_connections, dht_algorithm, aborted,
          pending_signer, pc, events, out, result, dispatched, replayed,
          join_point, ev, now, missing_aspects_resync, message_log,
          recv_wss_event, stamped, last_taken, in_process, iter,
          held, to_client, to_server, phase,
          nucleus, validation_futures, ribosomes, action_channel, next_id

vars == <<connections, spaces, open_connections, dht_algorithm, aborted,
          pending_signer, pc, events, out, result, dispatched, replayed,
          join_point, ev, now, missing_aspects_resync, message_log,
          recv_wss_event, stamped, last_taken, in_process, iter,
          held, to_client, to_server, phase,
          nucleus, validation_futures, ribosomes, action_channel, next_id>>

\* the inbound queue and the loop that drains it
drain_vars == <<recv_wss_event, stamped, last_taken, in_process, iter>>
\* the clients and the frames in flight between them and the switchboard
client_vars == <<held, to_client, to_server, phase>>
\* the validations of the nucleus: its state, the futures, the ribosomes
\* at work and the actions in flight
nucleus_vars ==
    <<nucleus, validation_futures, ribosomes, action_channel, next_id>>
\* the record of the event handled last
record_vars == <<pc, out, result, dispatched, replayed, join_point, ev, message_log>>
\* the switchboard and the record of the event it handled last
event_vars ==
    <<connections, spaces, open_connections, dht_algorithm, aborted,
      pending_signer, pc, events, out, result, dispatched, replayed,
      join_point, ev, now, missing_aspects_resync, message_log>>

(***************************************************************************)
(* The frames the clients send.                                            *)
(***************************************************************************)
AddressMaps == [Entries -> SUBSET Aspects]
AspectLists == {<<"X1">>, <<"X1", "X2">>}

\* every family, with the payload bound to space s and agent a
Family(s, a) ==
    {JoinSpace(s, a), LeaveSpace(s, a)}
    \cup {SendDirectMessage(s, a, to) : to \in Agents}
    \cup {HandleSendDirectMessageResult(s, a, to) : to \in Agents \ {a}}
    \cup {PublishEntry(s, a, e, l) : e \in Entries, l \in AspectLists}
    \cup {HandleGetAuthoringEntryListResult(s, a, m) : m \in AddressMaps}
    \cup {HandleGetGossipingEntryListResult(s, a, m) : m \in AddressMaps}
    \cup {HandleFetchEntryResult(s, a, r, e, l) :
             r \in {NoAgent} \cup Agents, e \in Entries, l \in AspectLists}
    \cup {QueryEntry(s, a, e) : e \in Entries}
    \cup {HandleQueryEntryResult(s, a, to) : to \in Agents \ {a}}

\* the second space: one agent, no gossip
OtherSpace ==
    {JoinSpace("S2", "A1"), LeaveSpace("S2", "A1"),
     SendDirectMessage("S2", "A1", "A2"),
     PublishEntry("S2", "A1", "E1", <<"X1">>),
     QueryEntry("S2", "A1", "E1")}

ClientMessages ==
    {Ping, Status, Pong, Lib3hToClientFromClient}
    \cup Family("S1", "A1") \cup Family("S1", "A2") \cup OtherSpace

\* a message that a Limbo connection puts on its queue
Queueable(msg) == msg.type \notin {"JoinSpace", "Ping", "Status"}

\* the <<message, signer>> frames sent for queueing to a connection in Limbo
LimboFrames ==
    {<<LeaveSpace("S1", "A1"), "A1">>,
     <<SendDirectMessage("S1", "A1", "A2"), "A1">>,
     <<SendDirectMessage("S1", "A1", "A2"), "A2">>,
     <<PublishEntry("S1", "A1", "E1", <<"X1", "X2">>), "A1">>,
     <<PublishEntry("S1", "A2", "E1", <<"X1">>), "A2">>,
     <<HandleGetGossipingEntryListResult("S1", "A1", EmptyAspectList), "A1">>,
     <<HandleFetchEntryResult("S1", "A1", "A2", "E1", <<"X1">>), "A1">>,
     <<QueryEntry("S1", "A1", "E1"), "A1">>,
     <<Lib3hToClientFromClient, "A1">>,
     <<Pong, "A2">>}

NoMessage == [type |-> "none"]
Event(kind, uri, msg, signer) ==
    [kind |-> kind, uri |-> uri, msg |-> msg, signer |-> signer]
NoEvent == Event("none", NoUri, NoMessage, NoAgent)

\* the state a handler starts from
Start(frame, rng) ==
    [connections |-> connections, spaces |-> spaces,
     open_connections |-> open_connections, dht_algorithm |-> dht_algorithm,
     aborted |-> aborted, out |-> <<>>, result |-> Ok,
     pending_signer |-> pending_signer, dispatched |-> <<>>,
     replayed |-> <<>>, join_point |-> NoJoinPoint, frame |-> frame,
     rng |-> rng, missing_aspects_resync |-> missing_aspects_resync,
     message_log |-> <<>>]

\* the state of the switchboard a handler leaves
Kept(st) ==
    /\ connections' = st.connections
    /\ spaces' = st.spaces
    /\ open_connections' = st.open_connections
    /\ dht_algorithm' = st.dht_algorithm
    /\ aborted' = st.aborted
    /\ pending_signer' = st.pending_signer
    /\ missing_aspects_resync' = st.missing_aspects_resync
    /\ UNCHANGED <<drain_vars, nucleus_vars>>

\* the state a handler leaves, with the record of the event
Handled(st, e) ==
    /\ Kept(st)
    /\ pc' = "handled"
    /\ out' = st.out
    /\ result' = st.result
    /\ dispatched' = st.dispatched
    /\ replayed' = st.replayed
    /\ join_point' = st.join_point
    /\ ev' = e
    /\ message_log' = st.message_log

\* one more event is handled, which takes no time
Finish(st, e) ==
    /\ Handled(st, e)
    /\ events' = events + 1
    /\ now' = now
    /\ UNCHANGED client_vars

Init ==
    /\ connections = [u \in UriIds |-> NoConn]
    /\ spaces = [s \in Spaces |-> NoSpace]
    /\ open_connections = {}
    /\ dht_algorithm = FullSync
    /\ aborted = FALSE
    /\ pending_signer = [u \in UriIds |-> <<>>]
    /\ pc = "recv"
    /\ out = <<>>
    /\ result = Ok
    /\ dispatched = <<>>
    /\ replayed = <<>>
    /\ join_point = NoJoinPoint
    /\ ev = NoEvent
    /\ events = 0
    /\ now = 0
    /\ missing_aspects_resync = now
    /\ message_log = <<>>
    /\ recv_wss_event = <<>>
    /\ stamped = 0
    /\ last_taken = 0
    /\ in_process = FALSE
    /\ iter = 0
    /\ held = [a \in AgentIds |-> EmptyAspectList]
    /\ to_client = [u \in UriIds |-> <<>>]
    /\ to_server = <<>>
    /\ phase = [a \in AgentIds |-> "off"]
    /\ nucleus = NoState
    /\ validation_futures = [id \in ValidationIds |-> NoValidation]
    /\ ribosomes = {}
    /\ action_channel = <<>>
    /\ next_id = 1

\* a message draws a shuffle when it is a gossiping list or a query
Shuffles(msgs) ==
    Len(SelectSeq(msgs, LAMBDA m :
        m.type \in {"HandleGetGossipingEntryListResult", "QueryEntry"}))
ShufflesOf(uri, msg) ==
    IF msg.type = "JoinSpace" /\ connections[uri].tag = "Limbo"
    THEN Shuffles(connections[uri].pending)
    ELSE Shuffles(<<msg>>)

\* the frame is one the model sends to uri in its present state
Sent(uri, msg, signer) ==
    connections[uri].tag = "Limbo" /\ Queueable(msg)
    => /\ <<msg, signer>> \in LimboFrames
       /\ Len(connections[uri].pending) < MaxPending

\* the switchboard is running, between two events
Ready == pc = "recv" /\ ~aborted
\* the run has steps left
Step(bound) == events < bound

SetDhtAlgorithm(new_algo) ==
    /\ Ready
    /\ new_algo # dht_algorithm
    /\ Finish([Start(NoAgent, <<>>) EXCEPT !.dht_algorithm = new_algo],
              Event("set_dht_algorithm", NoUri, NoMessage, NoAgent))

\* mutant: the uri is not entered in the open-connection set
IncomingConnectionNotOpened(uri) ==
    /\ Ready
    /\ Finish(HandleIncomingConnect(Start(NoAgent, <<>>), uri),
              Event("IncomingConnection", uri, NoMessage, NoAgent))

IncomingConnection(uri) ==
    /\ Ready
    /\ LET st == HandleIncomingConnect(Start(NoAgent, <<>>), uri)
       IN Finish([st EXCEPT !.open_connections = @ \cup {uri}],
                 Event("IncomingConnection", uri, NoMessage, NoAgent))

\* a binary frame whose signature verifies
ReceivedBinary(uri, msg, signer) ==
    /\ Ready
    /\ Sent(uri, msg, signer)
    /\ \E rng \in [1..ShufflesOf(uri, msg) -> AgentPerms] :
          Finish(HandleMessage(Start(signer, rng), uri, msg, signer),
                 Event("Binary", uri, msg, signer))

\* mutant: the connection that sent the frame is dropped
ReceivedUnverifiedDrops(uri) ==
    /\ Ready
    /\ Finish(Returned(Disconnect(Start(NoAgent, <<>>), uri), "VerifyFailed"),
              Event("Unverified", uri, NoMessage, NoAgent))

\* a binary frame whose signature does not verify
ReceivedUnverified(uri) ==
    /\ Ready
    /\ Finish(Returned(Start(NoAgent, <<>>), "VerifyFailed"),
              Event("Unverified", uri, NoMessage, NoAgent))

\* a text frame, a close frame or a transport error
Dropped(uri, kind) ==
    /\ Ready
    /\ Finish(Disconnect(Start(NoAgent, <<>>), uri),
              Event(kind, uri, NoMessage, NoAgent))

\* what process() does once the events are handled: the retry when it is due
ProcessResync ==
    /\ Ready
    /\ LET st == Start(NoAgent, <<>>)
           e == Event("process", NoUri, NoMessage, NoAgent)
       IN IF now >= missing_aspects_resync
          THEN Finish(RetrySyncMissingAspects(
                         [st EXCEPT !.missing_aspects_resync =
                             now + RETRY_FETCH_MISSING_ASPECTS_INTERVAL_MS]), e)
          ELSE Finish(st, e)

\* the clock moves on by d milliseconds between two events
TimePasses(d) ==
    /\ Ready
    /\ now + d <= MaxIntervals * RETRY_FETCH_MISSING_ASPECTS_INTERVAL_MS
    /\ now' = now + d
    /\ UNCHANGED <<connections, spaces, open_connections, dht_algorithm,
                   aborted, pending_signer, pc, events, out, result,
                   dispatched, replayed, join_point, ev,
                   missing_aspects_resync, message_log>>
    /\ UNCHANGED <<drain_vars, nucleus_vars>>
    /\ UNCHANGED client_vars

\* the loop of priv_check_wss_events goes round
NextEvent ==
    /\ pc = "handled"
    /\ ~aborted
    /\ pc' = "recv"
    /\ out' = <<>>
    /\ result' = Ok
    /\ dispatched' = <<>>
    /\ replayed' = <<>>
    /\ join_point' = NoJoinPoint
    /\ ev' = NoEvent
    /\ message_log' = <<>>
    /\ UNCHANGED <<drain_vars, nucleus_vars>>
    /\ UNCHANGED client_vars
    /\ UNCHANGED <<events, connections, spaces, open_connections, dht_algorithm,
                   aborted, pending_signer, now, missing_aspects_resync>>

Next ==
    \/ \E a \in DhtAlgorithm : Step(MaxEvents) /\ SetDhtAlgorithm(a)
    \/ \E u \in Uris : Step(MaxEvents) /\ IncomingConnection(u)
    \/ \E u \in Uris, m \in ClientMessages, a \in Agents :
          Step(MaxEvents) /\ ReceivedBinary(u, m, a)
    \/ \E u \in Uris : Step(MaxEvents) /\ ReceivedUnverified(u)
    \/ \E u \in Uris, k \in {"Text", "Close", "Error"} :
          Step(MaxEvents) /\ Dropped(u, k)
    \/ NextEvent

Spec == Init /\ [][Next]_vars

(***************************************************************************)
(* The loop of priv_check_wss_events over the inbound queue.  What an      *)
(* event is and what handling it does is the business of the actions       *)
(* above; here an event is its stamp.  The transport queues events while   *)
(* the loop runs as well as between two calls of process().                *)
(***************************************************************************)
\* the transport puts an event on the queue
Arrives ==
    /\ stamped < MaxArrivals
    /\ stamped' = stamped + 1
    /\ recv_wss_event' = Append(recv_wss_event, stamped')
    /\ UNCHANGED <<last_taken, in_process, iter>>
    /\ UNCHANGED <<event_vars, client_vars, nucleus_vars>>

\* the host calls process()
ProcessCalled ==
    /\ ~in_process
    /\ in_process' = TRUE
    /\ iter' = 0
    /\ UNCHANGED <<recv_wss_event, stamped, last_taken>>
    /\ UNCHANGED <<event_vars, client_vars, nucleus_vars>>

\* mutant: the loop takes the event queued last
TryRecvNewest ==
    /\ in_process /\ iter < DRAIN_LIMIT
    /\ IF recv_wss_event = <<>>
       THEN /\ in_process' = FALSE
            /\ UNCHANGED <<recv_wss_event, last_taken, iter>>
       ELSE /\ last_taken' = recv_wss_event[Len(recv_wss_event)]
            /\ recv_wss_event' =
                   SubSeq(recv_wss_event, 1, Len(recv_wss_event) - 1)
            /\ iter' = iter + 1
            /\ UNCHANGED in_process
    /\ UNCHANGED stamped
    /\ UNCHANGED <<event_vars, client_vars, nucleus_vars>>

\* one round of the loop: try_recv, and the event is handled or the loop
\* breaks on an empty queue
TryRecv ==
    /\ in_process /\ iter < DRAIN_LIMIT
    /\ IF recv_wss_event = <<>>
       THEN /\ in_process' = FALSE
            /\ UNCHANGED <<recv_wss_event, last_taken, iter>>
       ELSE /\ last_taken' = Head(recv_wss_event)
            /\ recv_wss_event' = Tail(recv_wss_event)
            /\ iter' = iter + 1
            /\ UNCHANGED in_process
    /\ UNCHANGED stamped
    /\ UNCHANGED <<event_vars, client_vars, nucleus_vars>>

\* the loop has gone round DRAIN_LIMIT times and process() returns
LoopEnds ==
    /\ in_process /\ iter = DRAIN_LIMIT
    /\ in_process' = FALSE
    /\ UNCHANGED <<recv_wss_event, stamped, last_taken, iter>>
    /\ UNCHANGED <<event_vars, client_vars, nucleus_vars>>

DrainNext ==
    \/ Arrives
    \/ ProcessCalled
    \/ TryRecv
    \/ LoopEnds

DrainSpec == Init /\ [][DrainNext]_vars

(***************************************************************************)
(* The gossip protocol: the clients of space S1 join, publish, report what *)
(* they hold and answer fetches, each signing as itself, while the host    *)
(* calls process() and time passes.  The host sets the algorithm, if it    *)
(* does, before the first connection comes in.                             *)
(***************************************************************************)
\* sharding where the agent closest to an entry holds it alone
SyncAlgorithms == {NaiveSharding(1)}

SyncMessages(a) ==
    {JoinSpace("S1", a)}
    \cup {PublishEntry("S1", a, e, l) : e \in Entries, l \in AspectLists}
    \cup {HandleGetGossipingEntryListResult("S1", a, m) : m \in AddressMaps}
    \cup {HandleFetchEntryResult("S1", a, r, e, l) :
             r \in Agents, e \in Entries, l \in AspectLists}

\* the steps of time: half a retry interval, or a whole one
Delays ==
    {RETRY_FETCH_MISSING_ASPECTS_INTERVAL_MS \div 2,
     RETRY_FETCH_MISSING_ASPECTS_INTERVAL_MS}

SyncNext ==
    \/ \E a \in SyncAlgorithms : events = 0 /\ SetDhtAlgorithm(a)
    \/ \E u \in Uris : Step(MaxSyncEvents) /\ IncomingConnection(u)
    \/ \E u \in Uris, a \in Agents : \E m \in SyncMessages(a) :
          Step(MaxSyncEvents) /\ ReceivedBinary(u, m, a)
    \/ \E u \in Uris : Step(MaxSyncEvents) /\ Dropped(u, "Close")
    \/ Step(MaxSyncEvents) /\ ProcessResync
    \/ \E d \in Delays : TimePasses(d)
    \/ NextEvent

SyncSpec == Init /\ [][SyncNext]_vars

(***************************************************************************)
(* Direct messages: the clients of space S1 connect, join, leave and send  *)
(* each other direct messages and their results, each signing as itself,   *)
(* and connections are closed and come in again.                           *)
(***************************************************************************)
ProxyMessages(a) ==
    {JoinSpace("S1", a), LeaveSpace("S1", a)}
    \cup {SendDirectMessage("S1", a, to) : to \in Agents}
    \cup {HandleSendDirectMessageResult("S1", a, to) : to \in Agents \ {a}}

ProxyNext ==
    \/ \E u \in Uris : Step(MaxProxyEvents) /\ IncomingConnection(u)
    \/ \E u \in Uris, a \in Agents : \E m \in ProxyMessages(a) :
          Step(MaxProxyEvents) /\ ReceivedBinary(u, m, a)
    \/ \E u \in Uris : Step(MaxProxyEvents) /\ Dropped(u, "Close")
    \/ NextEvent

ProxySpec == Init /\ [][ProxyNext]_vars

(***************************************************************************)
(* The closed system under FullSync: three clients, each with its own     *)
(* agent and connection, connect and join space S1 and stay; A3 publishes  *)
(* one entry.  Every client answers what the switchboard asks it from what *)
(* it holds at that moment, and stores what it is told to store.  The     *)
(* connections are fast and the inbound queue is slow: a frame of the      *)
(* switchboard reaches its client before the loop handles its next event,  *)
(* a frame of a client is in the inbound queue once written, and the loop  *)
(* handles the queue in order, going round between two events without a    *)
(* step of its own and keeping no record of the event.  The retry interval *)
(* is long against all of this: the retry runs when nothing is in flight.  *)
(* Times are counted from the last retry.                                  *)
(***************************************************************************)
ClientUri == [a \in AgentIds |-> CASE a = "A1" -> "u1" [] a = "A2" -> "u2" [] OTHER -> "u3"]
ClientAgent(uri) == CHOOSE a \in AgentIds : ClientUri[a] = uri
Publisher == "A3"
Published == PublishEntry("S1", Publisher, "E1", <<"X1">>)

\* what the transport queues: a new connection, or a frame its client signed
Connection(uri) == Event("IncomingConnection", uri, NoMessage, NoAgent)
Frame(uri, msg) == Event("Binary", uri, msg, ClientAgent(uri))
\* the frames of `log` that go to uri, in their order
FramesTo(log, uri) ==
    LET sel == SelectSeq(log, LAMBDA c : c.cmd = "SendMessage" /\ c.uri = uri)
    IN [i \in 1..Len(sel) |-> sel[i].msg]
\* the frames msgs as they come in from uri
FramesFrom(uri, msgs) == [i \in 1..Len(msgs) |-> Frame(uri, msgs[i])]

\* what the switchboard wrote goes onto the connections
Written(log) == to_client' = [u \in UriIds |-> to_client[u] \o FramesTo(log, u)]

\* what the client has authored
Authored(a) ==
    IF a = Publisher /\ phase[a] = "published"
    THEN [e \in Entries |-> IF e = "E1" THEN {"X1"} ELSE {}]
    ELSE EmptyAspectList

\* the client's answer to a frame of the switchboard
Answer(a, m) ==
    CASE m.type = "HandleGetAuthoringEntryList" ->
            <<HandleGetAuthoringEntryListResult(m.space, a, Authored(a))>>
      [] m.type = "HandleGetGossipingEntryList" ->
            <<HandleGetGossipingEntryListResult(m.space, a, held[a])>>
      [] m.type = "HandleFetchEntry" ->
            <<HandleFetchEntryResult(m.space, a, m.request_id, m.entry,
                  SetToSeq(m.aspect_address_list \cap held[a][m.entry]))>>
      [] OTHER -> <<>>

\* what the client holds once it has taken the frame
Stored(a, m) ==
    IF m.type = "HandleStoreEntryAspect"
    THEN [held[a] EXCEPT ![m.entry] = @ \cup {m.aspect}]
    ELSE held[a]

\* every frame of the switchboard has reached its client
Delivered == \A u \in UriIds : to_client[u] = <<>>
\* nothing is in flight
Quiet == to_server = <<>> /\ Delivered

\* the client connects and writes its JoinSpace
Connects(a) ==
    /\ phase[a] = "off"
    /\ phase' = [phase EXCEPT ![a] = "connected"]
    /\ to_server' = to_server \o <<Connection(ClientUri[a]), Frame(ClientUri[a], JoinSpace("S1", a))>>
    /\ UNCHANGED <<held, to_client, drain_vars, nucleus_vars, event_vars>>

\* the publisher writes its entry, which it holds
Publishes ==
    /\ phase[Publisher] = "connected"
    /\ phase' = [phase EXCEPT ![Publisher] = "published"]
    /\ held' = [held EXCEPT ![Publisher]["E1"] = @ \cup {"X1"}]
    /\ to_server' = Append(to_server, Frame(ClientUri[Publisher], Published))
    /\ UNCHANGED <<to_client, drain_vars, nucleus_vars, event_vars>>

\* the loop has a frame to take
CanTake == ~aborted /\ Delivered /\ to_server # <<>>
\* the loop takes the frame at the head of the inbound queue
ServerTakes == CanTake /\ to_server' = Tail(to_server)

\* the switchboard handles the connection at the head of the inbound queue
ServerAccepts ==
    /\ ServerTakes
    /\ Head(to_server).kind = "IncomingConnection"
    /\ LET uri == Head(to_server).uri
           st == HandleIncomingConnect(Start(NoAgent, <<>>), uri)
       IN Kept([st EXCEPT !.open_connections = @ \cup {uri}]) /\ Written(st.out)
    /\ UNCHANGED <<held, phase, events, now, record_vars>>

\* the switchboard handles the frame at the head of the inbound queue
ServerReceives ==
    /\ ServerTakes
    /\ Head(to_server).kind = "Binary"
    /\ LET uri == Head(to_server).uri
           msg == Head(to_server).msg
           signer == Head(to_server).signer
       IN \E rng \in [1..ShufflesOf(uri, msg) -> PermsOf(AgentIds)] :
             LET st == HandleMessage(Start(signer, rng), uri, msg, signer)
             IN Kept(st) /\ Written(st.out)
    /\ UNCHANGED <<held, phase, events, now, record_vars>>

\* the client takes the next frame of its connection and answers it
ClientReceives(a) ==
    /\ to_client[ClientUri[a]] # <<>>
    /\ LET uri == ClientUri[a]
           m == Head(to_client[uri])
       IN /\ to_client' = [to_client EXCEPT ![uri] = Tail(@)]
          /\ to_server' = to_server \o FramesFrom(uri, Answer(a, m))
          /\ held' = [held EXCEPT ![a] = Stored(a, m)]
    /\ UNCHANGED <<phase, drain_vars, nucleus_vars, event_vars>>

\* the retry interval has passed and process() runs the retry
Tick ==
    /\ ~aborted
    /\ Quiet
    /\ LET due == missing_aspects_resync
           st == RetrySyncMissingAspects(
                    [Start(NoAgent, <<>>) EXCEPT !.missing_aspects_resync =
                        due + RETRY_FETCH_MISSING_ASPECTS_INTERVAL_MS])
       IN /\ Kept([st EXCEPT !.missing_aspects_resync = @ - due])
          /\ Written(st.out)
          /\ now' = due - due
    /\ UNCHANGED <<held, to_server, phase, events, record_vars>>

LiveNext ==
    \/ \E a \in AgentIds : Connects(a)
    \/ Publishes
    \/ ServerAccepts
    \/ ServerReceives
    \/ \E a \in AgentIds : ClientReceives(a)
    \/ Tick

\* the frame at the head of the inbound queue can make the switchboard
\* fetch from agent b
CanFetchFrom(b) ==
    /\ CanTake
    /\ Head(to_server).kind = "Binary"
    /\ LET uri == Head(to_server).uri
           msg == Head(to_server).msg
           signer == Head(to_server).signer
       IN \E rng \in [1..ShufflesOf(uri, msg) -> PermsOf(AgentIds)] :
             LET st == HandleMessage(Start(signer, rng), uri, msg, signer)
             IN \E i \in 1..Len(st.out) :
                   /\ st.out[i].cmd = "SendMessage"
                   /\ st.out[i].uri = ClientUri[b]
                   /\ st.out[i].msg.type = "HandleFetchEntry"

\* the switchboard fetches from agent b
FetchesFrom(b) ==
    /\ ServerTakes
    /\ \E i \in 1..Len(to_client'[ClientUri[b]]) :
          to_client'[ClientUri[b]][i].type = "HandleFetchEntry"

\* the retry keeps coming, every frame of the switchboard is taken by its
\* client, the loop keeps taking what is queued (ServerAccepts or
\* ServerReceives is enabled when CanTake holds, and their steps are the
\* steps that take the head of the queue), and an agent the switchboard can fetch from again and again is
\* fetched from again and again
LiveFairness ==
    /\ WF_vars(Tick)
    /\ []<>~CanTake \/ []<><<ServerTakes>>_vars
    /\ \A a \in AgentIds : WF_vars(ClientReceives(a))
    /\ \A b \in AgentIds : <>[]~CanFetchFrom(b) \/ []<><<FetchesFrom(b)>>_vars

LiveSpec == Init /\ [][LiveNext]_vars /\ LiveFairness

(***************************************************************************)
(* Properties.                                                             *)
(***************************************************************************)
\* one event is handled by this step
Handles == pc = "recv" /\ pc' = "handled"
\* ... a verified binary frame on uri ev'.uri
HandlesBinary == Handles /\ ev'.kind = "Binary"
\* the connection state the frame of this step finds
Found == connections[ev'.uri]
\* the messages of a dispatch log
Messages(log) == [i \in 1..Len(log) |-> log[i].msg]
\* the variants a client must never send
ServerOnly == {"Lib3hToClient", "ClientToLib3hResponse"}

(* C1: in every reachable state, a uri that is Joined(s, a) has space s
   present and is the uri registered for agent a in s. *)
C1_JoinedIsRegistered ==
    \A u \in Uris :
        connections[u].tag = "Joined"
        => /\ spaces[connections[u].space].exists
           /\ spaces[connections[u].space].agents[connections[u].agent] = u

\* disconnect(uri) ran in this step: a LeaveSpace that matched, a transport
\* error, a Close frame or a Text frame
DisconnectRan ==
    /\ Handles
    /\ \/ ev'.kind \in {"Text", "Close", "Error"}
       \/ /\ ev'.kind = "Binary" /\ ev'.msg.type = "LeaveSpace"
          /\ Found.tag = "Joined" /\ result' = Ok

(* C2: after disconnect(uri) the uri has no connection state, no agent entry
   of any space refers to the uri, and a space whose last agent was removed
   is absent. *)
C2_DisconnectForgetsUri ==
    [][DisconnectRan =>
         /\ connections'[ev'.uri] = NoConn
         /\ \A s \in Spaces, a \in Agents :
               spaces'[s].exists => spaces'[s].agents[a] # ev'.uri
         /\ (Found.tag = "Joined" /\ spaces[Found.space].exists
                /\ AllAgents(spaces[Found.space]) \subseteq {Found.agent}
             => ~spaces'[Found.space].exists)]_vars

(* C3: every message dispatched to the Joined-state handler of a connection
   Joined(s, a) was carried by a frame whose verified signer is a, whether it
   was handled directly or queued in Limbo and replayed at join. *)
C3_DispatchedSignedByAgent ==
    \A i \in 1..Len(dispatched) : dispatched[i].signer = dispatched[i].agent

\* a direct message queued under another agent's signature was replayed at
\* join and proxied to its recipient
C3_Witness ==
    /\ pc = "handled" /\ ev.kind = "Binary" /\ ev.msg.type = "JoinSpace"
    /\ result = Ok
    /\ Len(dispatched) = 1
    /\ dispatched[1].msg.type = "SendDirectMessage"
    /\ dispatched[1].signer # dispatched[1].agent
    /\ \E i \in 1..Len(out) :
          out[i].cmd = "SendMessage"
          /\ out[i].msg.type = "HandleSendDirectMessage"

\* the families whose payload binding handle_joined compares
Checked ==
    {"SendDirectMessage", "HandleSendDirectMessageResult", "PublishEntry",
     "HandleGetAuthoringEntryListResult", "HandleGetGossipingEntryListResult",
     "HandleFetchEntryResult", "HandleQueryEntryResult"}

\* this step hands a message of a checked family to the Joined-state handler
\* of a connection whose binding differs from the payload's
MismatchedReceived ==
    /\ HandlesBinary
    /\ Found.tag = "Joined" /\ ev'.signer = Found.agent
    /\ ev'.msg.type \in Checked
    /\ (ev'.msg.agent # Found.agent \/ ev'.msg.space # Found.space)

(* C4: a message of a checked family, signed by the agent of the Joined
   connection it arrives on, whose payload agent or space differs from the
   binding of that connection is rejected with
   SpaceMismatch: nothing is enqueued and connections and spaces (all_aspects
   and missing_by_agent included) are unchanged. *)
C4_MismatchRejected ==
    [][MismatchedReceived =>
         /\ result' = SpaceMismatch
         /\ out' = <<>>
         /\ connections' = connections
         /\ spaces' = spaces]_vars

\* a gossiping list with the wrong binding was rejected on a connection whose
\* space holds aspects the list does not report
C4_Witness ==
    /\ pc = "handled" /\ ev.kind = "Binary"
    /\ ev.msg.type = "HandleGetGossipingEntryListResult"
    /\ connections[ev.uri].tag = "Joined"
    /\ ev.signer = connections[ev.uri].agent
    /\ ev.msg.agent # connections[ev.uri].agent
    /\ result = SpaceMismatch
    /\ spaces[connections[ev.uri].space].exists
    /\ spaces[connections[ev.uri].space].all_aspects["E1"] # {}
    /\ ev.msg.address_map["E1"] = {}

(* C5: under NaiveSharding a QueryEntry that arrives on a connection
   Joined(s, a) with requester_agent_id or space_address different from
   (a, s) is rejected with an error and is forwarded to nobody. *)
C5_QueryMismatchRejected ==
    (/\ pc = "handled" /\ ev.kind = "Binary" /\ ev.msg.type = "QueryEntry"
     /\ dht_algorithm.algo = "NaiveSharding"
     /\ Len(dispatched) = 1
     /\ (ev.msg.agent # dispatched[1].agent
            \/ ev.msg.space # dispatched[1].space))
    => /\ result # Ok
       /\ \A i \in 1..Len(out) :
             ~(out[i].cmd = "SendMessage"
                  /\ out[i].msg.type = "HandleQueryEntry")

\* a QueryEntry naming another space and another agent than the binding of
\* its connection was forwarded
C5_Witness ==
    /\ pc = "handled" /\ ev.kind = "Binary" /\ ev.msg.type = "QueryEntry"
    /\ Len(dispatched) = 1
    /\ ev.msg.agent # dispatched[1].agent
    /\ ev.msg.space # dispatched[1].space
    /\ result = Ok
    /\ \E i \in 1..Len(out) :
          out[i].cmd = "SendMessage" /\ out[i].msg.type = "HandleQueryEntry"

(* C6: a message other than JoinSpace received on a connection in Limbo
   leaves spaces as it was: the set of spaces, their agents, all_aspects and
   missing_by_agent. *)
C6_LimboKeepsSpaces ==
    [][(HandlesBinary /\ Found.tag = "Limbo" /\ ev'.msg.type # "JoinSpace")
         => spaces' = spaces]_vars

\* a publish was queued behind another message while a space has an agent
C6_Witness ==
    /\ pc = "handled" /\ ev.kind = "Binary"
    /\ ev.msg.type = "PublishEntry"
    /\ connections[ev.uri].tag = "Limbo"
    /\ Len(connections[ev.uri].pending) = 2
    /\ \E s \in Spaces : spaces[s].exists /\ AllAgents(spaces[s]) # {}

\* this step handles a JoinSpace on a Limbo connection, signed by the agent
\* it names
JoinReceived ==
    /\ HandlesBinary
    /\ Found.tag = "Limbo"
    /\ ev'.msg.type = "JoinSpace" /\ ev'.signer = ev'.msg.agent

(* C7 as claimed: after a successful JoinSpace every message queued in Limbo
   is replayed through the Joined-state handler, in the order received,
   within the handling of the JoinSpace. *)
C7_AllReplayedThroughJoined ==
    [][(JoinReceived /\ result' = Ok)
         => Messages(dispatched') = Found.pending]_vars

(* C7 as amended: after a successful JoinSpace the queued messages are handed
   on in the order received, within the handling of the JoinSpace; they reach
   the Joined-state handler of the new binding up to and including the first
   LeaveSpace for that binding, and the messages queued behind that
   LeaveSpace are refused because the connection is gone. *)
C7_ReplayedInOrder ==
    [][(JoinReceived /\ result' = Ok) =>
         LET q == Found.pending
             d == dispatched'
             n == Len(d)
             leave == LeaveSpace(ev'.msg.space, ev'.msg.agent)
         IN /\ n <= Len(q)
            /\ \A i \in 1..n :
                  /\ d[i].msg = q[i]
                  /\ d[i].uri = ev'.uri
                  /\ d[i].space = ev'.msg.space
                  /\ d[i].agent = ev'.msg.agent
                  /\ i < n => q[i] # leave
            /\ n < Len(q) => n > 0 /\ q[n] = leave
            /\ Len(replayed') = Len(q)
            /\ \A i \in (n + 1)..Len(q) : replayed'[i] = "NoConnection"]_vars

\* two different queued messages were replayed, in order
C7_Witness ==
    /\ pc = "handled" /\ ev.kind = "Binary" /\ ev.msg.type = "JoinSpace"
    /\ result = Ok
    /\ Len(dispatched) = 2
    /\ dispatched[1].msg.type = "PublishEntry"
    /\ dispatched[2].msg.type = "SendDirectMessage"

\* this step hands a message other than JoinSpace to a connection in Limbo
LimboReceived ==
    HandlesBinary /\ Found.tag = "Limbo" /\ ev'.msg.type # "JoinSpace"

\* the message of this step is put at the end of the queue of its connection,
\* which stays in Limbo, and one Err(MessageWhileInLimbo) goes to its uri
Queued ==
    /\ connections' =
          [connections EXCEPT ![ev'.uri] =
              Limbo(Append(Found.pending, ev'.msg))]
    /\ out' = <<SendMessage(ev'.uri, ErrMessageWhileInLimbo)>>

(* C8 as claimed: on a connection in Limbo every received WireMessage other
   than JoinSpace is appended to the pending queue, the connection stays in
   Limbo and one Err(MessageWhileInLimbo) is sent to the sender's uri. *)
C8_LimboQueuesAll == [][LimboReceived => Queued]_vars

(* C8 as amended: on a connection in Limbo every received WireMessage other
   than JoinSpace, Ping and Status is appended to the pending queue, the
   connection stays in Limbo and one Err(MessageWhileInLimbo) is sent to the
   sender's uri. *)
C8_LimboQueues ==
    [][(LimboReceived /\ ev'.msg.type \notin {"Ping", "Status"})
         => Queued]_vars

\* a second message was queued behind a different one
C8_Witness ==
    /\ pc = "handled" /\ ev.kind = "Binary"
    /\ connections[ev.uri].tag = "Limbo"
    /\ Len(connections[ev.uri].pending) = 2
    /\ connections[ev.uri].pending[2] = ev.msg
    /\ connections[ev.uri].pending[1] # ev.msg
    /\ out = <<SendMessage(ev.uri, ErrMessageWhileInLimbo)>>

(* C9: on a connection in Limbo or Joined a Ping is answered with one Pong
   and a Status with one StatusResponse to the sender's uri, and connections,
   pending queues and spaces are unchanged; the StatusResponse carries the
   number of spaces, the number of open connections, and redundant_count 0
   under FullSync or r under NaiveSharding(r). *)
C9_PingAndStatus ==
    [][(HandlesBinary /\ Found.tag \in {"Limbo", "Joined"}
          /\ ev'.msg \in {Ping, Status}) =>
         /\ connections' = connections
         /\ spaces' = spaces
         /\ result' = Ok
         /\ ev'.msg = Ping => out' = <<SendMessage(ev'.uri, Pong)>>
         /\ ev'.msg = Status =>
               out' = <<SendMessage(ev'.uri,
                          [type |-> "StatusResponse",
                           spaces |->
                               Cardinality({s \in Spaces : spaces[s].exists}),
                           connections |-> Cardinality(open_connections),
                           redundant_count |->
                               IF dht_algorithm = FullSync THEN 0
                               ELSE dht_algorithm.redundant_count])>>]_vars

\* a Status was answered under NaiveSharding(2) on a connection in Limbo with
\* a message queued, while another connection is open
C9_Witness ==
    /\ pc = "handled" /\ ev.kind = "Binary" /\ ev.msg = Status
    /\ connections[ev.uri].tag = "Limbo"
    /\ connections[ev.uri].pending # <<>>
    /\ Len(out) = 1
    /\ out[1].msg.type = "StatusResponse"
    /\ out[1].msg.spaces = 0
    /\ out[1].msg.connections = 2
    /\ out[1].msg.redundant_count = 2

\* the two list requests a join sends
ListRequests(u, s, a) ==
    <<SendMessage(u, HandleGetAuthoringEntryList(s, a)),
      SendMessage(u, HandleGetGossipingEntryList(s, a))>>

(* C10: when a uri in Limbo receives JoinSpace{s, a} signed by a, the
   connection becomes Joined(s, a), a is registered in s with the uri (s is
   there), and a HandleGetAuthoringEntryList then a HandleGetGossipingEntryList
   for (s, a) are enqueued to the uri before anything a replayed message
   sends. *)
C10_JoinRegistersAndRequests ==
    [][JoinReceived =>
         /\ join_point'.taken
         /\ join_point'.connections[ev'.uri] =
               Joined(ev'.msg.space, ev'.msg.agent)
         /\ join_point'.spaces[ev'.msg.space].exists
         /\ join_point'.spaces[ev'.msg.space].agents[ev'.msg.agent] = ev'.uri
         /\ Len(out') >= 2
         /\ SubSeq(out', 1, 2) =
               ListRequests(ev'.uri, ev'.msg.space, ev'.msg.agent)]_vars

\* a JoinSpace signed by its agent left its connection Joined without the
\* agent registered and without a list request sent
C10_Witness ==
    /\ pc = "handled" /\ ev.kind = "Binary" /\ ev.msg.type = "JoinSpace"
    /\ ev.signer = ev.msg.agent
    /\ join_point.taken
    /\ connections[ev.uri] = Joined(ev.msg.space, ev.msg.agent)
    /\ spaces[ev.msg.space].agents[ev.msg.agent] # ev.uri
    /\ out = <<>>

\* disconnect ran in this step (it always puts a CloseConnection on the
\* command channel)
Closes == \E i \in 1..Len(out') : out'[i].cmd = "CloseConnection"

(* C11: a step in which no disconnection happens never shrinks all_aspects:
   a space that is there stays, and every (entry, aspect) pair of its
   all_aspects is still in it afterwards; so over a trace without
   disconnections all_aspects only grows. *)
C11_AllAspectsGrow ==
    [][~Closes =>
         \A s \in Spaces :
            spaces[s].exists =>
               /\ spaces'[s].exists
               /\ \A e \in Entries :
                     spaces[s].all_aspects[e] \subseteq
                        spaces'[s].all_aspects[e]]_vars

\* an entry was published with one aspect into a space that already held
\* two aspects of it
C11_Witness ==
    /\ pc = "handled" /\ ev.kind = "Binary" /\ ev.msg.type = "PublishEntry"
    /\ result = Ok
    /\ ev.msg.aspect_list = <<"X1">>
    /\ spaces[ev.msg.space].exists
    /\ spaces[ev.msg.space].all_aspects["E1"] = {"X1", "X2"}

(* C12: in every reachable state every (agent, entry, aspect) recorded in
   the missing_by_agent of a space has its aspect in all_aspects[entry] of
   that space. *)
C12_MissingIsKnown ==
    \A s \in Spaces :
        spaces[s].exists =>
            \A a \in Agents, e \in Entries :
                spaces[s].missing[a][e] \subseteq spaces[s].all_aspects[e]

\* a gossiping list that reports one of the two known aspects left the other
\* one in the ledger of its agent
C12_Witness ==
    /\ pc = "handled" /\ ev.kind = "Binary"
    /\ ev.msg.type = "HandleGetGossipingEntryListResult"
    /\ result = Ok
    /\ connections[ev.uri].tag = "Joined"
    /\ ev.msg.address_map["E1"] = {"X1"}
    /\ spaces[ev.msg.space].exists
    /\ spaces[ev.msg.space].all_aspects["E1"] = {"X1", "X2"}
    /\ spaces[ev.msg.space].missing[ev.msg.agent]["E1"] = {"X2"}

\* this step hands a PublishEntry that matches the binding to the
\* Joined-state handler of its connection, under FullSync
PublishReceived ==
    /\ HandlesBinary
    /\ Found.tag = "Joined" /\ ev'.signer = Found.agent
    /\ ev'.msg.type = "PublishEntry"
    /\ ev'.msg.agent = Found.agent /\ ev'.msg.space = Found.space
    /\ dht_algorithm = FullSync

\* the positions of `log` that send msg to uri
Sends(log, uri, msg) == {i \in 1..Len(log) : log[i] = SendMessage(uri, msg)}

\* the aspects of an aspect list
Range(seq) == {seq[i] : i \in 1..Len(seq)}

(* C13: under FullSync, when a connection Joined(s, a) publishes an entry
   with aspects X1..Xn, every (entry, Xi) is in all_aspects of s afterwards,
   exactly one HandleStoreEntryAspect per aspect is enqueued to the uri of
   every other agent registered in s, and none is enqueued to the uri of the
   publishing agent. *)
C13_PublishStoresAtOthers ==
    [][PublishReceived =>
         LET s == Found.space
             a == Found.agent
             e == ev'.msg.entry
             others == IF spaces[s].exists THEN AllAgents(spaces[s]) \ {a}
                       ELSE {}
         IN /\ spaces'[s].exists
            /\ Range(ev'.msg.aspect_list) \subseteq spaces'[s].all_aspects[e]
            /\ \A b \in others, x \in Range(ev'.msg.aspect_list) :
                  Cardinality(Sends(out', spaces[s].agents[b],
                                    HandleStoreEntryAspect(s, a, e, x))) = 1
            /\ \A i \in 1..Len(out') : out'[i].uri # ev'.uri]_vars

\* a publish on a connection Joined(s, a) was answered with a
\* HandleStoreEntryAspect enqueued to that same connection
C13_Witness ==
    /\ pc = "handled" /\ ev.kind = "Binary" /\ ev.msg.type = "PublishEntry"
    /\ result = Ok
    /\ dht_algorithm = FullSync
    /\ connections[ev.uri] = Joined(ev.msg.space, ev.msg.agent)
    /\ ev.signer = ev.msg.agent
    /\ \E i \in 1..Len(out) :
          /\ out[i].cmd = "SendMessage" /\ out[i].uri = ev.uri
          /\ out[i].msg.type = "HandleStoreEntryAspect"

\* a gossiping list arrives on a connection Joined(s, a), signed by a and
\* bound to s and a
GossipReceived ==
    /\ HandlesBinary /\ Found.tag = "Joined"
    /\ ev'.signer = Found.agent
    /\ ev'.msg.type = "HandleGetGossipingEntryListResult"
    /\ ev'.msg.agent = Found.agent /\ ev'.msg.space = Found.space
\* what the replication policy expects agent a of space s to hold
Expected(s, a) ==
    IF ~spaces[s].exists THEN EmptyAspectList
    ELSE IF dht_algorithm = FullSync THEN spaces[s].all_aspects
    ELSE AspectsInShardForAgent(spaces[s], a, dht_algorithm.redundant_count)
\* the fetches of a command log that carry a request id
FetchesFor(log) ==
    {i \in 1..Len(log) :
        /\ log[i].cmd = "SendMessage" /\ log[i].msg.type = "HandleFetchEntry"
        /\ log[i].msg.request_id # NoAgent}
\* the agents of sp, other than a, not recorded as missing all of `aspects`
Able(sp, a, e, aspects) ==
    {b \in AllAgents(sp) \ {a} : ~AgentIsMissingAllAspects(sp, b, e, aspects)}

(* C14: when a gossiping list arrives from a connection Joined(s, a), every
   aspect the replication policy expects a to hold (all of all_aspects under
   FullSync) that the list does not report is in missing_by_agent[a]
   afterwards; every HandleFetchEntry sent for those aspects carries
   request_id a and the needed aspects of its entry, and goes to the
   registered uri of an agent of s that is not a and is not recorded as
   missing all of them; when there is no such agent, no fetch is sent for
   the entry. *)
C14_GossipRecordsAndFetches ==
    [][GossipReceived =>
        LET s == Found.space
            a == Found.agent
            needed == AspectListDiff(Expected(s, a), ev'.msg.address_map)
            sp == spaces'[s]
        IN /\ sp.exists
           /\ \A e \in Entries : needed[e] \subseteq sp.missing[a][e]
           /\ \A i \in FetchesFor(out') :
                 LET m == out'[i].msg
                 IN /\ m.request_id = a /\ m.space = s
                    /\ needed[m.entry] # {}
                    /\ m.aspect_address_list = needed[m.entry]
                    /\ m.agent \in Able(sp, a, m.entry, needed[m.entry])
                    /\ out'[i].uri = sp.agents[m.agent]
           /\ \A e \in Entries :
                 Able(sp, a, e, needed[e]) = {}
                 => ~\E i \in FetchesFor(out') : out'[i].msg.entry = e]_vars

\* a gossiping list left its agent with missing aspects and a fetch went to
\* another agent on its behalf
C14_Witness ==
    /\ pc = "handled" /\ ev.kind = "Binary"
    /\ ev.msg.type = "HandleGetGossipingEntryListResult"
    /\ result = Ok
    /\ connections[ev.uri] = Joined(ev.msg.space, ev.msg.agent)
    /\ ev.signer = ev.msg.agent
    /\ spaces[ev.msg.space].exists
    /\ spaces[ev.msg.space].missing[ev.msg.agent]["E1"] # {}
    /\ \E i \in FetchesFor(out) :
          /\ out[i].msg.request_id = ev.msg.agent
          /\ out[i].msg.agent # ev.msg.agent
          /\ out[i].uri # ev.uri

\* a fetch result with a request id arrives on a connection Joined(s, a),
\* signed by a and bound to s and a, and names an agent registered in s
FetchResultReceived ==
    /\ HandlesBinary /\ Found.tag = "Joined"
    /\ ev'.signer = Found.agent
    /\ ev'.msg.type = "HandleFetchEntryResult"
    /\ ev'.msg.agent = Found.agent /\ ev'.msg.space = Found.space
    /\ ev'.msg.request_id # NoAgent
    /\ spaces[Found.space].exists
    /\ spaces[Found.space].agents[ev'.msg.request_id] # NoUri

(* C15: when a HandleFetchEntryResult with a non-empty request_id that names
   an agent d registered in the sender's space arrives, every returned
   aspect is out of missing_by_agent[d] for that entry afterwards and one
   HandleStoreEntryAspect for that entry and aspect is sent to the uri d is
   registered under; the rest of d's ledger stays. *)
C15_FetchResultDelivered ==
    [][FetchResultReceived =>
        LET s == Found.space
            d == ev'.msg.request_id
            e == ev'.msg.entry
            returned == Range(ev'.msg.aspect_list)
        IN /\ spaces'[s].exists
           /\ \A x \in returned :
                 /\ x \notin spaces'[s].missing[d][e]
                 /\ Cardinality(Sends(out', spaces[s].agents[d],
                        HandleStoreEntryAspect(s, Found.agent, e, x))) = 1
           /\ \A f \in Entries :
                 spaces'[s].missing[d][f] =
                     IF f = e THEN spaces[s].missing[d][f] \ returned
                     ELSE spaces[s].missing[d][f]]_vars

\* the entries of a message log that record msg for agent at uri
Logged(log, agent, uri, msg) ==
    {i \in 1..Len(log) : log[i] = LogOut(agent, uri, msg)}

(* C15, amended: when a HandleFetchEntryResult with a non-empty request_id
   that names an agent d registered in the sender's space arrives, every
   returned aspect is out of missing_by_agent[d] for that entry afterwards
   and one HandleStoreEntryAspect for that entry and aspect is handed to
   send for d and the uri d is registered under; the command is enqueued
   when that uri is an open connection and dropped when it is not; the rest
   of d's ledger stays. *)
C15_FetchResultHandedToSend ==
    [][FetchResultReceived =>
        LET s == Found.space
            d == ev'.msg.request_id
            e == ev'.msg.entry
            returned == Range(ev'.msg.aspect_list)
            url == spaces[s].agents[d]
        IN /\ spaces'[s].exists
           /\ \A x \in returned :
                 LET store == HandleStoreEntryAspect(s, Found.agent, e, x)
                 IN /\ x \notin spaces'[s].missing[d][e]
                    /\ Cardinality(Logged(message_log', d, url, store)) = 1
                    /\ Cardinality(Sends(out', url, store)) =
                           IF url \in open_connections THEN 1 ELSE 0
           /\ Len(message_log') = Len(ev'.msg.aspect_list)
           /\ \A f \in Entries :
                 spaces'[s].missing[d][f] =
                     IF f = e THEN spaces[s].missing[d][f] \ returned
                     ELSE spaces[s].missing[d][f]]_vars

\* a fetch result brought agent d one of the two aspects it was missing:
\* the store went to the uri of d and the other aspect is still missing
C15_Witness ==
    /\ pc = "handled" /\ ev.kind = "Binary"
    /\ ev.msg.type = "HandleFetchEntryResult"
    /\ result = Ok
    /\ connections[ev.uri] = Joined(ev.msg.space, ev.msg.agent)
    /\ ev.signer = ev.msg.agent
    /\ ev.msg.request_id \in Agents \ {ev.msg.agent}
    /\ ev.msg.aspect_list = <<"X1">>
    /\ spaces[ev.msg.space].exists
    /\ spaces[ev.msg.space].missing[ev.msg.request_id]["E1"] = {"X2"}
    /\ out = <<SendMessage(spaces[ev.msg.space].agents[ev.msg.request_id],
                   HandleStoreEntryAspect(ev.msg.space, ev.msg.agent, "E1",
                                          "X1"))>>

\* process() gets to its retry check in this step
ProcessRan == Handles /\ ev'.kind = "process"
\* the retry deadline is reached
Due == now >= missing_aspects_resync
\* the agents with entries in their ledger that are registered in their space
RetryTargets ==
    {t \in Spaces \X Agents :
        /\ spaces[t[1]].exists
        /\ EntryAddresses(spaces[t[1]].missing[t[2]]) # {}
        /\ spaces[t[1]].agents[t[2]] # NoUri}
\* the request a retry makes of target t, and the uri it is for
RetryRequest(t) == HandleGetGossipingEntryList(t[1], t[2])
RetryUri(t) == spaces[t[1]].agents[t[2]]

(* C16: whenever process() runs with the retry deadline reached, one
   HandleGetGossipingEntryList is sent to every agent that has entries in
   missing_by_agent and is still registered in its space, to the uri it is
   registered under, and to no other agent, and the deadline moves 10
   seconds ahead of now; a process() that runs before the deadline sends
   nothing and leaves the deadline alone. *)
C16_RetryRequestsAll ==
    [][ProcessRan =>
        IF Due
        THEN /\ \A t \in RetryTargets :
                   Cardinality(Sends(out', RetryUri(t), RetryRequest(t))) = 1
             /\ \A i \in 1..Len(out') :
                   \E t \in RetryTargets :
                       out'[i] = SendMessage(RetryUri(t), RetryRequest(t))
             /\ missing_aspects_resync' =
                    now + RETRY_FETCH_MISSING_ASPECTS_INTERVAL_MS
        ELSE out' = <<>> /\ UNCHANGED missing_aspects_resync]_vars

(* C16, amended: whenever process() runs with the retry deadline reached,
   one HandleGetGossipingEntryList is handed to send for every agent that
   has entries in missing_by_agent and is still registered in its space,
   for the uri it is registered under, and for no other agent; the command
   is enqueued when that uri is an open connection and dropped when it is
   not; the deadline moves 10 seconds ahead of now, and a process() that
   runs before the deadline sends nothing and leaves the deadline alone. *)
C16_RetryHandsAllToSend ==
    [][ProcessRan =>
        IF Due
        THEN /\ \A t \in RetryTargets :
                   /\ Cardinality(Logged(message_log', t[2], RetryUri(t),
                                         RetryRequest(t))) = 1
                   /\ Cardinality(Sends(out', RetryUri(t), RetryRequest(t))) =
                          IF RetryUri(t) \in open_connections THEN 1 ELSE 0
             /\ Len(message_log') = Cardinality(RetryTargets)
             /\ \A i \in 1..Len(out') :
                   \E t \in RetryTargets :
                       out'[i] = SendMessage(RetryUri(t), RetryRequest(t))
             /\ missing_aspects_resync' =
                    now + RETRY_FETCH_MISSING_ASPECTS_INTERVAL_MS
        ELSE /\ out' = <<>> /\ message_log' = <<>>
             /\ UNCHANGED missing_aspects_resync]_vars

\* a second retry, one interval after the first, asked an agent with
\* missing aspects for its gossiping list again
C16_Witness ==
    /\ pc = "handled" /\ ev.kind = "process"
    /\ now = RETRY_FETCH_MISSING_ASPECTS_INTERVAL_MS
    /\ missing_aspects_resync = now + RETRY_FETCH_MISSING_ASPECTS_INTERVAL_MS
    /\ \E s \in Spaces, a \in Agents :
          /\ spaces[s].exists
          /\ spaces[s].missing[a]["E1"] # {}
          /\ out = <<SendMessage(spaces[s].agents[a],
                         HandleGetGossipingEntryList(s, a))>>

\* the ledger of space S1 records that agent a misses aspect x of entry e
InLedger(a, e, x) == spaces["S1"].exists /\ x \in spaces["S1"].missing[a][e]

\* the ledger has let go of the pair, and the aspect has reached agent a or
\* is on its way there
Resolved(a, e, x) ==
    /\ ~InLedger(a, e, x)
    /\ \/ x \in held[a][e]
       \/ \E i \in 1..Len(to_client[ClientUri[a]]), b \in AgentIds :
             to_client[ClientUri[a]][i] = HandleStoreEntryAspect("S1", b, e, x)

(* C17: under FullSync, with at least two agents joined to a space that stay
   connected and answer every request truthfully, and with ticks and the
   random choice of a peer scheduled fairly, every (agent, entry, aspect)
   the ledger of missing aspects records is resolved in the end: a
   HandleStoreEntryAspect for it is sent to the agent and the ledger lets go
   of the pair. *)
C17_MissingEventuallyResolved ==
    \A a \in AgentIds, e \in {Published.entry}, x \in Range(Published.aspect_list) :
        InLedger(a, e, x) ~> Resolved(a, e, x)

\* all three agents are joined and nothing is in flight; A1 holds the aspect,
\* which the publish sent it, and the ledger still records it as missing at
\* A1: no list A1 reports from now on misses it, so nothing fetches it
C17_Witness ==
    /\ Quiet
    /\ spaces["S1"].exists
    /\ AllAgents(spaces["S1"]) = AgentIds
    /\ \A a \in AgentIds : held[a]["E1"] = {"X1"}
    /\ InLedger("A1", "E1", "X1")

(* C18: per-message errors never end the event loop: whatever message a
   client sends on a connection in Limbo or Joined, the switchboard has not
   aborted once the message is handled and it goes on to the next event. *)
C18_ErrorsNeverAbort ==
    [][HandlesBinary /\ Found.tag \in {"Limbo", "Joined"} => ~aborted']_vars

\* a Joined connection sent a variant only the server sends, signed by its
\* agent, and the switchboard panicked
C18_Witness ==
    /\ aborted
    /\ pc = "handled" /\ ev.kind = "Binary"
    /\ ev.msg.type \in ServerOnly
    /\ connections[ev.uri].tag = "Joined"
    /\ ev.signer = connections[ev.uri].agent
    /\ result = "Panic"

(* C20: a binary frame whose signature does not verify is discarded: the
   connections, their Limbo queues, the spaces and the set of open
   connections are as they were, no command is enqueued and the switchboard
   has not aborted, so the connection handles what comes next as if the
   frame had not come. *)
C20_UnverifiedDiscarded ==
    [][Handles /\ ev'.kind = "Unverified" =>
        /\ UNCHANGED <<connections, spaces, open_connections, pending_signer,
                       dht_algorithm, missing_aspects_resync>>
        /\ out' = <<>> /\ message_log' = <<>>
        /\ ~aborted']_vars

\* a frame that does not verify came in on a Joined connection, and on a
\* connection in Limbo with messages queued: both are as they were
C20_Witness ==
    /\ pc = "handled" /\ ev.kind = "Unverified"
    /\ result = "VerifyFailed"
    /\ ev.uri \in open_connections
    /\ connections[ev.uri].tag = "Limbo"
    /\ connections[ev.uri].pending # <<>>
    /\ \E u \in Uris \ {ev.uri} :
          /\ connections[u].tag = "Joined"
          /\ spaces[connections[u].space].exists

\* the loop takes an event in this step
Took == last_taken' # last_taken

(* C19: each call of process() handles at most 100 inbound events, in the
   order they were queued: the loop takes the event at the head of the
   queue, which is the one that arrived next after the one taken before it,
   and never a 101st in one call; it stops before that only when it finds
   the queue empty; and what it does not take stays queued in its order,
   behind it only new arrivals.  So the events of one connection are
   handled in the order they arrived. *)
C19_DrainsInOrderUpToLimit ==
    [][/\ Took =>
            /\ in_process /\ iter < DRAIN_LIMIT
            /\ recv_wss_event # <<>>
            /\ last_taken' = Head(recv_wss_event)
            /\ last_taken' = last_taken + 1
            /\ recv_wss_event' = Tail(recv_wss_event)
            /\ iter' = iter + 1
       /\ ~Took =>
            \/ recv_wss_event' = recv_wss_event
            \/ recv_wss_event' = Append(recv_wss_event, stamped + 1)
       /\ in_process /\ ~in_process' =>
            recv_wss_event = <<>> \/ iter = DRAIN_LIMIT]_vars

\* a call of process() has handled 100 events and returned, and the events
\* behind them are still queued, the next to come first
C19_Witness ==
    /\ ~in_process /\ iter = DRAIN_LIMIT
    /\ last_taken = DRAIN_LIMIT
    /\ Len(recv_wss_event) > 1
    /\ Head(recv_wss_event) = last_taken + 1
    /\ recv_wss_event[Len(recv_wss_event)] = stamped

\* a Close frame, a Text frame or a transport error is handled by this step
DropHandled == Handles /\ ev'.kind \in {"Text", "Close", "Error"}

(* C21: a Close frame, a Text frame or a transport error for a uri is
   terminal: the step that handles it removes the uri's connection state,
   takes the uri out of the open connections and enqueues one
   CloseConnection(uri) and nothing else; and no SendMessage is enqueued to
   that uri afterwards unless a new IncomingConnection for it arrives: every
   SendMessage a step enqueues goes to a uri that was open before the step,
   and a uri becomes open only by the step that handles its
   IncomingConnection. *)
C21_DropIsTerminal ==
    [][/\ DropHandled =>
            /\ connections'[ev'.uri] = NoConn
            /\ ev'.uri \notin open_connections'
            /\ out' = <<CloseConnection(ev'.uri)>>
       /\ Handles =>
            \A i \in 1..Len(out') :
                out'[i].cmd = "SendMessage" => out'[i].uri \in open_connections
       /\ \A u \in Uris :
            u \in open_connections' \ open_connections
            => Handles /\ ev'.kind = "IncomingConnection" /\ ev'.uri = u]_vars

\* a Close frame, a Text frame or a transport error has been handled for a
\* uri that was open and joined (an agent is still registered at it): the
\* uri has no connection state and is not open, and the one command is its
\* CloseConnection
C21_Witness ==
    /\ pc = "handled"
    /\ ev.kind \in {"Text", "Close", "Error"}
    /\ connections[ev.uri] = NoConn
    /\ ev.uri \notin open_connections
    /\ out = <<CloseConnection(ev.uri)>>
    /\ \E s \in Spaces, a \in Agents :
          spaces[s].exists /\ spaces[s].agents[a] = ev.uri

\* a direct message that matches the binding of the Joined connection it
\* arrives on, signed by its agent
DirectMessageReceived ==
    /\ HandlesBinary /\ Found.tag = "Joined"
    /\ ev'.signer = Found.agent
    /\ ev'.msg.type = "SendDirectMessage"
    /\ ev'.msg.agent = Found.agent /\ ev'.msg.space = Found.space

\* the uri the recipient of the direct message is registered under
RecipientUri ==
    IF spaces[Found.space].exists
    THEN AgentIdToUri(spaces[Found.space], ev'.msg.to) ELSE NoUri

(* C22: a SendDirectMessage from a connection Joined(s, a) with a matching
   payload is forwarded as one HandleSendDirectMessage to the uri registered
   for to_agent_id in s, and nothing else is sent; when to_agent_id is not
   registered in s an error is returned, no frame is sent to anyone, and the
   sender's connection stays Joined(s, a) with spaces unchanged. *)
C22_DirectMessageForwarded ==
    [][DirectMessageReceived =>
        IF RecipientUri # NoUri
        THEN /\ out' = <<SendMessage(RecipientUri,
                            Forward("HandleSendDirectMessage", ev'.msg))>>
             /\ result' = Ok
        ELSE /\ result' # Ok
             /\ out' = <<>>
             /\ connections'[ev'.uri] = Found
             /\ spaces' = spaces]_vars

(* C22, amended: a SendDirectMessage from a connection Joined(s, a) with a
   matching payload is handed to send as one HandleSendDirectMessage for
   to_agent_id and the uri registered for it in s, and nothing else is: the
   command is enqueued when that uri is an open connection and dropped when
   it is not; when to_agent_id is not registered in s an error is returned,
   nothing is handed to send, and the sender's connection stays Joined(s, a)
   with spaces unchanged. *)
C22_DirectMessageHandedToSend ==
    [][DirectMessageReceived =>
        LET fwd == Forward("HandleSendDirectMessage", ev'.msg)
        IN IF RecipientUri # NoUri
           THEN /\ message_log' = <<LogOut(ev'.msg.to, RecipientUri, fwd)>>
                /\ out' = IF RecipientUri \in open_connections
                          THEN <<SendMessage(RecipientUri, fwd)>> ELSE <<>>
                /\ result' = Ok
                /\ connections'[ev'.uri] = Found
                /\ spaces' = spaces
           ELSE /\ result' # Ok
                /\ message_log' = <<>>
                /\ out' = <<>>
                /\ connections'[ev'.uri] = Found
                /\ spaces' = spaces]_vars

\* a direct message was handed to send for the uri its recipient is
\* registered under, a connection that is closed: nothing was enqueued
C22_Witness ==
    /\ pc = "handled" /\ ev.kind = "Binary"
    /\ ev.msg.type = "SendDirectMessage"
    /\ connections[ev.uri] = Joined(ev.msg.space, ev.msg.agent)
    /\ result = Ok
    /\ Len(message_log) = 1
    /\ message_log[1].msg = Forward("HandleSendDirectMessage", ev.msg)
    /\ message_log[1].uri = spaces[ev.msg.space].agents[ev.msg.to]
    /\ message_log[1].uri \notin open_connections
    /\ out = <<>>

\* ---------------------------------------------------------------------
\* Queries: agents join, one entry is published, agents report what they
\* hold, and queries for the entry arrive; under every algorithm.
\* ---------------------------------------------------------------------
QueryMessages(a) ==
    {JoinSpace("S1", a), PublishEntry("S1", a, "E1", <<"X1">>),
     HandleGetGossipingEntryListResult("S1", a, EmptyAspectList),
     QueryEntry("S1", a, "E1")}

QueryNext ==
    \/ \E a \in DhtAlgorithm : events = 0 /\ SetDhtAlgorithm(a)
    \/ \E u \in Uris : Step(MaxQueryEvents) /\ IncomingConnection(u)
    \/ \E u \in Uris, a \in Agents : \E m \in QueryMessages(a) :
          Step(MaxQueryEvents) /\ ReceivedBinary(u, m, a)
    \/ \E u \in Uris : Step(MaxQueryEvents) /\ Dropped(u, "Close")
    \/ NextEvent

QuerySpec == Init /\ [][QueryNext]_vars

\* a QueryEntry that matches the binding of the Joined connection it arrives
\* on, signed by its agent
QueryReceived ==
    /\ HandlesBinary /\ Found.tag = "Joined"
    /\ ev'.signer = Found.agent
    /\ ev'.msg.type = "QueryEntry"
    /\ ev'.msg.agent = Found.agent /\ ev'.msg.space = Found.space

\* the space of the connection as the handler finds it
QuerySpace == IF spaces[Found.space].exists THEN spaces[Found.space] ELSE NewSpace
\* the agents supposed to hold the queried entry
QueryPool ==
    AgentsSupposedToHoldEntry(QuerySpace, EntryLocation[ev'.msg.entry],
                              dht_algorithm.redundant_count)
\* those of them with no missing aspect recorded for the entry
QueryComplete ==
    {a \in QueryPool :
        ~AgentIsMissingSomeAspectForEntry(QuerySpace, a, ev'.msg.entry)}

(* C23: under NaiveSharding(r) a QueryEntry from a Joined connection is
   forwarded as one HandleQueryEntry to an agent of
   agents_supposed_to_hold_entry for the queried entry, and when an agent of
   that pool has no missing aspect recorded for the entry the target is such
   an agent; when the pool is empty the query is sent back to the requester;
   under FullSync the QueryEntry is rejected with an error and nothing is
   sent. *)
C23_QueryForwarded ==
    [][QueryReceived =>
        LET fwd == Forward("HandleQueryEntry", ev'.msg)
        IN IF dht_algorithm = FullSync
           THEN result' # Ok /\ out' = <<>>
           ELSE IF QueryPool = {}
           THEN out' = <<SendMessage(ev'.uri, fwd)>>
           ELSE \E t \in QueryPool :
                   /\ out' = <<SendMessage(QuerySpace.agents[t], fwd)>>
                   /\ QueryComplete # {} => t \in QueryComplete]_vars

\* a matching query handled with an empty pool that did not come back to the
\* connection it arrived on
C23_Witness ==
    /\ pc = "handled" /\ ev.kind = "Binary" /\ ev.msg.type = "QueryEntry"
    /\ connections[ev.uri].tag = "Joined"
    /\ connections[ev.uri].agent = ev.signer
    /\ ev.msg.agent = ev.signer /\ ev.msg.space = connections[ev.uri].space
    /\ dht_algorithm # FullSync /\ dht_algorithm.redundant_count = 0
    /\ out # <<SendMessage(ev.uri, Forward("HandleQueryEntry", ev.msg))>>

\* the SendMessage commands of a command list that MESSAGE_LOGGER records
SendCommands(cmds) ==
    SelectSeq(cmds, LAMBDA c : /\ c.cmd = "SendMessage"
                               /\ c.msg.type \notin {"Ping", "Pong"})
\* the sends of a log addressed to a uri of the set, as commands
RECURSIVE OpenSends(_, _)
OpenSends(log, open) ==
    IF log = <<>> THEN <<>>
    ELSE LET rest == OpenSends(Tail(log), open)
         IN IF Head(log).uri \in open
            THEN <<SendMessage(Head(log).uri, Head(log).msg)>> \o rest
            ELSE rest

\* send() applied to the state as it stands
SendNow(agent, uri, msg) == Send(Start(NoAgent, <<>>), agent, uri, msg)

(* C24: send() never enqueues a SendMessage command for a uri that is not in
   the open-connection set at that moment: such a send is dropped and changes
   no connection or space state.  Checked on send() itself in every state
   reached, and on every handler: the SendMessage commands a handler leaves
   go to uris that were open, and but for Ping and Pong, which are not logged,
   they are the sends it made to uris that were open, in order. *)
C24_SendOnlyToOpen ==
    [][/\ \A u \in UriIds, a \in Agents :
            LET msg == HandleGetGossipingEntryList("S1", a)
                st == SendNow(a, u, msg)
            IN /\ st.out = IF u \in open_connections
                           THEN <<SendMessage(u, msg)>> ELSE <<>>
               /\ st.message_log = <<LogOut(a, u, msg)>>
               /\ st.connections = connections /\ st.spaces = spaces
               /\ st.open_connections = open_connections
       /\ Handles =>
            /\ SendCommands(out') = OpenSends(message_log', open_connections)
            /\ \A i \in 1..Len(out') :
                  out'[i].cmd = "SendMessage" =>
                      out'[i].uri \in open_connections]_vars

\* a handler made a send to a uri that was not open, and no command for it
\* was enqueued
C24_Witness ==
    /\ pc = "handled"
    /\ \E i \in 1..Len(message_log) :
          /\ message_log[i].uri \notin open_connections
          /\ \A j \in 1..Len(out) : out[j].uri # message_log[i].uri

\* a LeaveSpace arrives on a Joined connection, signed by its agent
LeaveReceived ==
    /\ HandlesBinary /\ Found.tag = "Joined"
    /\ ev'.signer = Found.agent
    /\ ev'.msg.type = "LeaveSpace"

\* the space without the agent: gone when the agent was its last
Without(sp, agent) ==
    IF ~sp.exists \/ AllAgents(sp) \ {agent} = {} THEN NoSpace
    ELSE [sp EXCEPT !.agents[agent] = NoUri]

(* C25: a LeaveSpace from a connection Joined(s, a) whose data equals (s, a)
   removes the connection and removes a from s, removing s when a was its
   last agent; a LeaveSpace whose data differs from (s, a) returns
   SpaceMismatch and leaves the connection Joined(s, a) and every space
   unchanged. *)
C25_LeaveSpace ==
    [][LeaveReceived =>
        IF ev'.msg.agent = Found.agent /\ ev'.msg.space = Found.space
        THEN /\ result' = Ok
             /\ connections' = [connections EXCEPT ![ev'.uri] = NoConn]
             /\ open_connections' = open_connections \ {ev'.uri}
             /\ spaces' = [spaces EXCEPT
                              ![Found.space] = Without(@, Found.agent)]
        ELSE /\ result' = SpaceMismatch
             /\ connections' = connections
             /\ open_connections' = open_connections
             /\ spaces' = spaces]_vars

\* an agent has left a space that another agent stays in: its connection is
\* gone and so is its registration
C25_Witness ==
    /\ pc = "handled" /\ ev.kind = "Binary" /\ ev.msg.type = "LeaveSpace"
    /\ result = Ok
    /\ connections[ev.uri] = NoConn /\ ev.uri \notin open_connections
    /\ spaces[ev.msg.space].exists
    /\ spaces[ev.msg.space].agents[ev.msg.agent] = NoUri
    /\ AllAgents(spaces[ev.msg.space]) # {}

\* an authoring list that matches the binding of the Joined connection it
\* arrives on, signed by its agent
AuthoringListReceived ==
    /\ HandlesBinary /\ Found.tag = "Joined"
    /\ ev'.signer = Found.agent
    /\ ev'.msg.type = "HandleGetAuthoringEntryListResult"
    /\ ev'.msg.agent = Found.agent /\ ev'.msg.space = Found.space

\* what the space of the connection holds, nothing when the space is not there
KnownAspects ==
    IF spaces[Found.space].exists THEN spaces[Found.space].all_aspects
    ELSE EmptyAspectList
\* the reported aspects absent from all_aspects, per entry
Unseen == [e \in Entries |-> ev'.msg.address_map[e] \ KnownAspects[e]]

(* C26: handling a HandleGetAuthoringEntryListResult from Joined(s, a) sends,
   for each reported entry that has aspects absent from all_aspects of s, one
   HandleFetchEntry with an empty request_id and exactly those unseen aspects
   back to the reporter's uri, sends nothing for entries fully known, and
   changes neither all_aspects nor missing_by_agent. *)
C26_AuthoringListFetchesUnseen ==
    [][AuthoringListReceived =>
        LET fetch(e) == SendMessage(ev'.uri,
                           HandleFetchEntry(NoAgent, Found.space, Found.agent,
                                            e, Unseen[e]))
            unseen_entries == {e \in Entries : Unseen[e] # {}}
        IN /\ result' = Ok
           /\ Len(out') = Cardinality(unseen_entries)
           /\ \A e \in unseen_entries : \E i \in 1..Len(out') : out'[i] = fetch(e)
           /\ spaces'[Found.space].exists
           /\ spaces'[Found.space].all_aspects = KnownAspects
           /\ IF spaces[Found.space].exists
              THEN spaces' = spaces
              ELSE spaces'[Found.space] = NewSpace
           /\ connections' = connections]_vars

\* an authoring list reported an aspect the space holds and one it does not:
\* one fetch for the unseen one went back to the reporter
C26_Witness ==
    /\ pc = "handled" /\ ev.kind = "Binary"
    /\ ev.msg.type = "HandleGetAuthoringEntryListResult"
    /\ result = Ok
    /\ spaces["S1"].exists
    /\ ev.msg.address_map["E1"] = {"X1", "X2"}
    /\ spaces["S1"].all_aspects["E1"] = {"X1"}
    /\ out = <<SendMessage(ev.uri,
                  HandleFetchEntry(NoAgent, "S1", ev.signer, "E1", {"X2"}))>>

\* a gossiping list that matches the binding of the Joined connection it
\* arrives on, signed by its agent
GossipingListReceived ==
    /\ HandlesBinary /\ Found.tag = "Joined"
    /\ ev'.signer = Found.agent
    /\ ev'.msg.type = "HandleGetGossipingEntryListResult"
    /\ ev'.msg.agent = Found.agent /\ ev'.msg.space = Found.space

(* C27: for every (agent, entry, aspect), once a gossiping-list report of
   that agent containing the aspect has been handled, the aspect is not in
   missing_by_agent for that agent and entry. *)
C27_ReportClearsLedger ==
    [][GossipingListReceived =>
        \A e \in Entries : \A x \in ev'.msg.address_map[e] :
            x \notin spaces'[Found.space].missing[Found.agent][e]]_vars

\* a gossiping list of an agent that contains an aspect has been handled and
\* the ledger still holds the aspect as missing at that agent
C27_Witness ==
    /\ pc = "handled" /\ ev.kind = "Binary"
    /\ ev.msg.type = "HandleGetGossipingEntryListResult"
    /\ result = Ok
    /\ connections[ev.uri].tag = "Joined"
    /\ spaces[ev.msg.space].exists
    /\ \E e \in Entries : \E x \in ev.msg.address_map[e] :
          x \in spaces[ev.msg.space].missing[ev.signer][e]

\* a fetch result with a request id arrives on a connection Joined(s, a),
\* signed by a and bound to s and a, and names an agent not registered in s
StrayFetchResultReceived ==
    /\ HandlesBinary /\ Found.tag = "Joined"
    /\ ev'.signer = Found.agent
    /\ ev'.msg.type = "HandleFetchEntryResult"
    /\ ev'.msg.agent = Found.agent /\ ev'.msg.space = Found.space
    /\ ev'.msg.request_id # NoAgent
    /\ \/ ~spaces[Found.space].exists
       \/ AgentIdToUri(spaces[Found.space], ev'.msg.request_id) = NoUri

(* C28: a HandleFetchEntryResult whose non-empty request_id names an agent
   that is not registered in the sender's space is dropped: no
   HandleStoreEntryAspect is sent, missing_by_agent and all_aspects are
   unchanged, and the handler returns success. *)
C28_StrayFetchResultDropped ==
    [][StrayFetchResultReceived =>
        /\ result' = Ok
        /\ out' = <<>> /\ message_log' = <<>>
        /\ spaces' = spaces
        /\ connections' = connections
        /\ open_connections' = open_connections]_vars

\* a fetch result carrying an aspect the space does not hold, for an agent
\* that is not registered, has been handled: nothing was sent or stored
C28_Witness ==
    /\ pc = "handled" /\ ev.kind = "Binary"
    /\ ev.msg.type = "HandleFetchEntryResult"
    /\ connections[ev.uri] = Joined("S1", ev.signer)
    /\ ev.msg.agent = ev.signer /\ ev.msg.space = "S1"
    /\ ev.msg.request_id \in Agents
    /\ spaces["S1"].exists
    /\ spaces["S1"].agents[ev.msg.request_id] = NoUri
    /\ spaces["S1"].missing[ev.signer]["E1"] # {}
    /\ "X2" \notin spaces["S1"].all_aspects["E1"]
    /\ ev.msg.aspect_list = <<"X1", "X2">>
    /\ result = Ok /\ out = <<>>

\* ---------------------------------------------------------------------
\* Publishes: agents join, reconnect and close, and entries of one or two
\* aspects are published; the algorithm is set once, before the first frame.
\* ---------------------------------------------------------------------
PublishMessages(a) ==
    {JoinSpace("S1", a)}
    \cup {PublishEntry("S1", a, "E1", l) : l \in AspectLists}

PublishNext ==
    \/ \E a \in DhtAlgorithm : events = 0 /\ SetDhtAlgorithm(a)
    \/ \E u \in Uris : Step(MaxPublishEvents) /\ IncomingConnection(u)
    \/ \E u \in Uris, a \in Agents : \E m \in PublishMessages(a) :
          Step(MaxPublishEvents) /\ ReceivedBinary(u, m, a)
    \/ \E u \in Uris : Step(MaxPublishEvents) /\ Dropped(u, "Close")
    \/ NextEvent

PublishSpec == Init /\ [][PublishNext]_vars

\* a PublishEntry that matches the binding of the Joined connection it
\* arrives on, signed by its agent, under NaiveSharding
ShardedPublishReceived ==
    /\ HandlesBinary /\ Found.tag = "Joined"
    /\ ev'.signer = Found.agent
    /\ ev'.msg.type = "PublishEntry"
    /\ ev'.msg.agent = Found.agent /\ ev'.msg.space = Found.space
    /\ dht_algorithm # FullSync

\* the space of the connection as the handler finds it
PublishSpace == IF spaces[Found.space].exists THEN spaces[Found.space] ELSE NewSpace
\* the agents supposed to hold the published entry
Holders ==
    AgentsSupposedToHoldEntry(PublishSpace, EntryLocation[ev'.msg.entry],
                              dht_algorithm.redundant_count)
\* the store message of an aspect of the published entry
Store(x) == HandleStoreEntryAspect(Found.space, Found.agent, ev'.msg.entry, x)
\* the number of commands of a list that carry a message to a uri
Count(cmds, uri, msg) == Cardinality(Sends(cmds, uri, msg))
\* the number of sends of a log of a message to an agent at a uri
CountLogged(log, agent, uri, msg) ==
    Cardinality({i \in 1..Len(log) : log[i] = LogOut(agent, uri, msg)})
SmallerOf(m, n) == IF m < n THEN m ELSE n

(* C29: under NaiveSharding(r), each aspect of a published entry is added to
   all_aspects and is sent as HandleStoreEntryAspect only to agents of
   agents_supposed_to_hold_entry(entry location, r), that is to
   min(r, number of agents in the space) recipients, the provider being a
   recipient when it belongs to that set. *)
C29_PublishSentToHolders ==
    [][ShardedPublishReceived =>
        LET aspects == Range(ev'.msg.aspect_list)
        IN /\ result' = Ok
           /\ spaces'[Found.space].all_aspects =
                 [PublishSpace.all_aspects EXCEPT ![ev'.msg.entry] = @ \cup aspects]
           /\ Cardinality(Holders) =
                 SmallerOf(dht_algorithm.redundant_count,
                           Cardinality(AllAgents(PublishSpace)))
           /\ Len(out') = Cardinality(aspects) * Cardinality(Holders)
           /\ \A x \in aspects : \A t \in Holders :
                 Count(out', PublishSpace.agents[t], Store(x)) = 1]_vars

(* C29, amended: under NaiveSharding(r), each aspect of a published entry is
   added to all_aspects and is handed to send as HandleStoreEntryAspect once
   for each agent of agents_supposed_to_hold_entry(entry location, r) and the
   uri registered for it, and for no one else, that is for
   min(r, number of agents in the space) agents, the provider among them when
   it belongs to that set; the commands enqueued are those of the sends to
   uris that are open connections, the others are dropped. *)
C29_PublishHandedToHolders ==
    [][ShardedPublishReceived =>
        LET aspects == Range(ev'.msg.aspect_list)
        IN /\ result' = Ok
           /\ spaces'[Found.space].all_aspects =
                 [PublishSpace.all_aspects EXCEPT ![ev'.msg.entry] = @ \cup aspects]
           /\ Cardinality(Holders) =
                 SmallerOf(dht_algorithm.redundant_count,
                           Cardinality(AllAgents(PublishSpace)))
           /\ Len(message_log') = Cardinality(aspects) * Cardinality(Holders)
           /\ \A x \in aspects : \A t \in Holders :
                 CountLogged(message_log', t, PublishSpace.agents[t],
                             Store(x)) = 1
           /\ out' = OpenSends(message_log', open_connections)]_vars

\* under NaiveSharding(1), with two agents in the space, the provider holds
\* the entry it published: both aspects came back to it and to no one else
C29_Witness ==
    /\ pc = "handled" /\ ev.kind = "Binary" /\ ev.msg.type = "PublishEntry"
    /\ dht_algorithm = NaiveSharding(1)
    /\ connections[ev.uri] = Joined("S1", ev.signer)
    /\ ev.msg.agent = ev.signer /\ ev.msg.space = "S1"
    /\ spaces["S1"].exists
    /\ Cardinality(AllAgents(spaces["S1"])) = 2
    /\ spaces["S1"].all_aspects["E1"] = {"X1", "X2"}
    /\ out = <<SendMessage(ev.uri,
                  HandleStoreEntryAspect("S1", ev.signer, "E1", "X1")),
               SendMessage(ev.uri,
                  HandleStoreEntryAspect("S1", ev.signer, "E1", "X2"))>>

\* ---------------------------------------------------------------------
\* Validations: the state of the context is set, entries are handed to
\* validate_entry, the validation threads return, their results are reduced
\* into validation_results and the futures are polled, in any interleaving.
\* ---------------------------------------------------------------------
\* the state of the context is set
SetState ==
    /\ ~nucleus.exists
    /\ nucleus' = NucleusState([k \in ValidationKeys |-> NoResult])
    /\ UNCHANGED <<validation_futures, ribosomes, action_channel, next_id>>
    /\ UNCHANGED <<event_vars, drain_vars, client_vars>>

\* validate_entry up to its await: the entry type is checked and the
\* validation thread is spawned
ValidateEntry(address, known_type) ==
    /\ nucleus.exists
    /\ next_id <= MaxValidations
    /\ LET id == next_id
           key == <<id, address>>
       IN /\ next_id' = next_id + 1
          /\ IF known_type
             THEN /\ ribosomes' = ribosomes \cup {key}
                  /\ validation_futures' =
                        [validation_futures EXCEPT ![id] = Awaited(key)]
             ELSE /\ ribosomes' = ribosomes
                  /\ validation_futures' =
                        [validation_futures EXCEPT ![id] =
                            Done(key, ValidationFailed("unknown entry type"))]
    /\ UNCHANGED <<nucleus, action_channel>>
    /\ UNCHANGED <<event_vars, drain_vars, client_vars>>

\* the validation thread has the outcome of the callback and sends the
\* ReturnValidationResult action
RibosomeReturns(key, maybe_validation_result) ==
    /\ key \in ribosomes
    /\ ribosomes' = ribosomes \ {key}
    /\ action_channel' =
          Append(action_channel,
                 [key |-> key,
                  result |-> ValidationResult(maybe_validation_result)])
    /\ UNCHANGED <<nucleus, validation_futures, next_id>>
    /\ UNCHANGED <<event_vars, drain_vars, client_vars>>

\* the reducer records the result of the action at the head of the channel
ReduceReturnValidationResult ==
    /\ action_channel # <<>>
    /\ nucleus.exists
    /\ LET action == Head(action_channel)
       IN nucleus' = [nucleus EXCEPT
                         !.validation_results[action.key] = action.result]
    /\ action_channel' = Tail(action_channel)
    /\ UNCHANGED <<validation_futures, ribosomes, next_id>>
    /\ UNCHANGED <<event_vars, drain_vars, client_vars>>

\* the executor polls an awaited future
PollFuture(id) ==
    /\ validation_futures[id].status = "awaited"
    /\ LET key == validation_futures[id].key
           output == PollValidation(nucleus, key)
       IN validation_futures' =
             IF output = Pending THEN validation_futures
             ELSE [validation_futures EXCEPT ![id] = Done(key, output)]
    /\ UNCHANGED <<nucleus, ribosomes, action_channel, next_id>>
    /\ UNCHANGED <<event_vars, drain_vars, client_vars>>

ValidationNext ==
    \/ SetState
    \/ \E address \in Addresses, known_type \in BOOLEAN :
          ValidateEntry(address, known_type)
    \/ \E key \in ValidationKeys, r \in CallbackOutcomes :
          RibosomeReturns(key, r)
    \/ ReduceReturnValidationResult
    \/ \E id \in ValidationIds : PollFuture(id)

ValidationSpec == Init /\ [][ValidationNext]_vars

\* what validation_results holds under a key, nothing when there is no state
Recorded(key) ==
    IF nucleus.exists THEN nucleus.validation_results[key] ELSE NoResult

(* C30: a ValidationFuture stays Pending until validation_results holds an
   entry for its own (id, address) key and then resolves to that entry's
   outcome: Ok(address) when the recorded result is a pass,
   ValidationFailed(message) when it is a failure; a result recorded under
   another key never resolves it. *)
C30_FutureResolvesOnOwnKey ==
    [][\A id \in ValidationIds :
          LET f == validation_futures[id]
              r == Recorded(f.key)
          IN f.status = "awaited" =>
                /\ PollValidation(nucleus, f.key) =
                      IF r = NoResult THEN Pending
                      ELSE IF r = OkUnit THEN ReadyOk(f.key[2])
                      ELSE ValidationFailed(r.error)
                /\ IF r = NoResult
                   THEN validation_futures'[id] = f
                   ELSE validation_futures'[id] \in
                           {f, Done(f.key,
                                    IF r = OkUnit THEN ReadyOk(f.key[2])
                                    ELSE ValidationFailed(r.error))}]_vars

\* two validations of the same entry: the one whose result was a failure has
\* returned ValidationFailed, the other, with no result under its key, is
\* still awaited
C30_Witness ==
    \E i, j \in ValidationIds :
        /\ i # j
        /\ validation_futures[i].status = "returned"
        /\ validation_futures[i].output = ValidationFailed("invalid")
        /\ validation_futures[j].status = "awaited"
        /\ validation_futures[j].key[2] = validation_futures[i].key[2]
        /\ Recorded(validation_futures[j].key) = NoResult
        /\ \E k \in ValidationIds \ {i, j} :
              /\ validation_futures[k].output =
                    ReadyOk(validation_futures[k].key[2])

\* a JoinSpace arrives on a Limbo connection and its handling returns an
\* error: the signer is not the declared agent, or join_agent fails
JoinFails ==
    /\ HandlesBinary /\ Found.tag = "Limbo"
    /\ ev'.msg.type = "JoinSpace"
    /\ result' \in {SignerMismatch, "JoinAgentFailed"}

(* C31: if handling a JoinSpace on a Limbo connection returns an error (the
   signer differs from the declared agent, or registering the agent in the
   space fails), the connection stays in Limbo with its pending queue
   unchanged, no space is created or modified, and no list request is
   sent. *)
C31_FailedJoinStaysInLimbo ==
    [][JoinFails =>
        /\ connections'[ev'.uri] = Found
        /\ spaces' = spaces
        /\ out' = <<>> /\ message_log' = <<>>]_vars

\* join_agent failed and the connection is no longer in Limbo
C31_Witness ==
    /\ pc = "handled" /\ ev.kind = "Binary" /\ ev.msg.type = "JoinSpace"
    /\ result = "JoinAgentFailed"
    /\ connections[ev.uri].tag # "Limbo"
    /\ out = <<>>

(* C32: in every reachable state the open-connection set equals the set of
   uris that have a connection state: a uri is in open_connections exactly
   when connections has an entry for it. *)
C32_OpenIffConnection ==
    \A u \in UriIds : u \in open_connections <=> connections[u] # NoConn

\* one uri is joined and open, the other was closed: it has no connection
\* state and is not open
C32_Witness ==
    /\ pc = "handled" /\ ev.kind = "Close"
    /\ out = <<CloseConnection(ev.uri)>>
    /\ connections[ev.uri] = NoConn /\ ev.uri \notin open_connections
    /\ \E u \in Uris : connections[u].tag = "Joined" /\ u \in open_connections

(* C33: in every reachable state every space present in the spaces map has
   at least one registered agent: no operation (join, publish, list result,
   fetch result, query, disconnect) leaves or creates a space with zero
   agents. *)
C33_NoEmptySpace ==
    \A s \in Spaces : spaces[s].exists => AllAgents(spaces[s]) # {}

\* a publish on a Joined connection has left its space with no agent
C33_Witness ==
    /\ pc = "handled" /\ ev.kind = "Binary" /\ ev.msg.type = "PublishEntry"
    /\ result = Ok
    /\ connections[ev.uri] = Joined(ev.msg.space, ev.msg.agent)
    /\ spaces[ev.msg.space].exists
    /\ AllAgents(spaces[ev.msg.space]) = {}

\* a frame is handled on a Joined connection, signed by its agent
JoinedReceived ==
    /\ HandlesBinary /\ Found.tag = "Joined"
    /\ ev'.signer = Found.agent

\* the uris registered for the agents of a space
RegisteredUris(sp) ==
    IF sp.exists THEN {sp.agents[a] : a \in AllAgents(sp)} ELSE {}

\* the messages the switchboard routes between the agents of a space
Routed ==
    {"HandleSendDirectMessage", "SendDirectMessageResult",
     "HandleStoreEntryAspect", "HandleFetchEntry", "HandleQueryEntry",
     "QueryEntryResult"}

(* C34: messages never cross spaces: every message the switchboard sends
   while handling a message of a connection Joined(s, a) goes to a uri that
   is registered for an agent of space s at that moment, never to a
   connection that is joined only to another space or that is still in
   Limbo. *)
C34_NoCrossSpace ==
    [][JoinedReceived =>
        \A i \in 1..Len(out') :
            out'[i].cmd = "SendMessage" /\ out'[i].msg.type \in Routed =>
                /\ out'[i].uri \in RegisteredUris(spaces'[Found.space])
                /\ connections'[out'[i].uri].tag = "Joined"
                /\ connections'[out'[i].uri].space = Found.space]_vars

\* a direct message of a connection joined to a space was sent to a
\* connection that is in Limbo
C34_Witness ==
    /\ pc = "handled" /\ ev.kind = "Binary"
    /\ ev.msg.type = "SendDirectMessage" /\ result = Ok
    /\ connections[ev.uri] = Joined(ev.msg.space, ev.signer)
    /\ Len(out) = 1 /\ out[1].cmd = "SendMessage"
    /\ out[1].msg.type = "HandleSendDirectMessage"
    /\ connections[out[1].uri].tag = "Limbo"

(* C35: once a connection is Joined(s, a), no message it sends changes its
   binding: its state stays exactly Joined(s, a) until the connection is
   removed, and a JoinSpace received on a Joined connection is rejected with
   an error and changes neither connections nor spaces. *)
C35_BindingIsStable ==
    [][HandlesBinary /\ Found.tag = "Joined" =>
        /\ connections'[ev'.uri] \in {Found, NoConn}
        /\ ev'.msg.type = "JoinSpace" =>
              /\ result' # Ok
              /\ connections' = connections
              /\ spaces' = spaces
              /\ out' = <<>>]_vars

\* a JoinSpace for another space, signed by the agent of a Joined
\* connection, was rejected: the binding and the spaces are as they were
C35_Witness ==
    /\ pc = "handled" /\ ev.kind = "Binary" /\ ev.msg.type = "JoinSpace"
    /\ connections[ev.uri].tag = "Joined"
    /\ connections[ev.uri].agent = ev.signer
    /\ ev.msg.agent = ev.signer
    /\ ev.msg.space # connections[ev.uri].space
    /\ ~spaces[ev.msg.space].exists
    /\ result = "JoinNotProxied"

====
